---- MODULE Spec2Model ----
(***************************************************************************)
(* A model of M2M: the hub registry (hub.js, kept as src/unnamed/part_000) *)
(* and the agent runtime (src/agent.js).                                   *)
(*                                                                         *)
(* Time is counted in seconds.  Agent ids, sockets and processes are small *)
(* integers, 0 standing for null.  The agents table is a sequence of rows  *)
(* in insertion order; metadata and created_at are not modelled (no        *)
(* statement of the hub reads them back into a decision).                  *)
(***************************************************************************)
EXTENDS Integers, Sequences, FiniteSets, TLC

VARIABLES
  agents,      \* hub: the rows of table agents
  wsState,     \* hub: per control socket "new" | "open" | "closed"
  wsAgentId,   \* hub: per control socket, the closure variable agentId
  clients,     \* hub: this.clients, id -> socket (0: no entry)
  inflight,    \* hub: requests whose handler awaits its continuation
  now,         \* the clock, in seconds
  lastSweep,   \* the time of the last run of cleanup()
  cleanupPc,   \* cleanup(): "wait" | "mid" (between its two UPDATEs)
  hubOp,       \* history: the last statement a control socket or the sweeper ran
  issued,      \* history: the ids whose INSERT succeeded, in order
  regOver,     \* history: per socket, the ids inserted for its requests
  procUp,      \* agent: per process, whether its P2P server listens
  agentId,     \* agent: per process, this.id
  agentCache,  \* agent: per process, this.agentCache, id -> entry
  sessions,    \* the P2P connections opened so far, both ends of each
  requests,    \* agent: the request() calls made so far
  dispatched,  \* history: the 'message' events emitted, in order
  responded,   \* history: the respond() calls made, in order
  broadcasts,  \* agent: the broadcast() calls made so far, with their results
  autoReconnect,   \* agent A: this.autoReconnect
  connected,       \* agent A: this.connected
  errorListener,   \* agent A: whether a listener of 'error' is registered
  crashed,         \* agent A: an exception no handler caught ended the process
  ws,              \* agent A: the sockets _connectToHub made; this.ws is the last
  pendingRequests, \* agent A: this.pendingRequests
  reconnectTimer,  \* agent A: when this._reconnectTimer fires (-1: null)
  heartbeatTimer,  \* agent A: when this._heartbeatTimer fires next (-1: null)
  emitted,         \* history: the last event agent A emitted
  owed,            \* history: when the reconnection attempt owed is due (-1: none)
  disconnectPc,    \* disconnect(): "none", "awaiting" its request, "returned", "threw"
  plaintext,   \* Crypto: the data given to encrypt
  sealKey,     \* Crypto: the key given to encrypt
  sealed,      \* Crypto: what encrypt returned
  unsealed,    \* Crypto: the key given to decrypt and what it returned
  frames,      \* framing: the lines the sender wrote, in order
  wire,        \* framing: the bytes written and not yet received
  buffer,      \* framing: the receiver's buffer
  lines        \* framing: the lines the receiver took from buffer, in order

hubVars == <<agents, wsState, wsAgentId, clients, inflight, now, lastSweep,
             cleanupPc, hubOp, issued, regOver>>

msgVars == <<procUp, agentId, agentCache, sessions, requests, dispatched,
             responded, broadcasts>>

connVars == <<autoReconnect, connected, errorListener, crashed, ws,
              pendingRequests, reconnectTimer, heartbeatTimer, emitted, owed,
              disconnectPc>>

labVars == <<plaintext, sealKey, sealed, unsealed, frames, wire, buffer,
             lines>>

vars == <<hubVars, msgVars, connVars, labVars>>

----------------------------------------------------------------------------
(* Bounds of the model *)

MaxIds == 2

Ids == 1..MaxIds
Socks == {1, 2}
NoId == 0
NoSock == 0

(* Program constants *)

CONFIG_cleanup == 30
CONFIG_defaultLimit == 100
CONFIG_maxLimit == 500
IdleAfter == 120
OfflineAfter == 300

RemoteIP == "10.0.0.1"
NoAddress == [host |-> "", port |-> 0]

(* The agent processes.  A listens at one endpoint; B and C are two       *)
(* processes of one host configured with the same port, of which one at a *)
(* time can listen.                                                       *)
Procs == {"A", "B", "C"}

Addr(p) ==
  IF p = "A" THEN [host |-> "10.0.0.1", port |-> 4000]
             ELSE [host |-> "10.0.0.2", port |-> 4001]

PeerIds == {1, 2, 3}

NoEntry == [address |-> NoAddress, lastSeen |-> -1]

NoTimer == -1

----------------------------------------------------------------------------
(* The table *)

RowIds == {agents[i].id : i \in DOMAIN agents}

Rows == {agents[i] : i \in DOMAIN agents}

RowOf(id) == CHOOSE r \in Rows : r.id = id

Min(a, b) == IF a < b THEN a ELSE b

Max(a, b) == IF a > b THEN a ELSE b

(* UPDATE agents SET status = st WHERE id = $1 *)
SetStatus(table, id, st) ==
  [i \in DOMAIN table |->
     IF table[i].id = id THEN [table[i] EXCEPT !.status = st] ELSE table[i]]

(* A request of the control channel; "" , 0 and {} stand for an absent field *)
Request(action, id, address, caps, status, limit, offset) ==
  [action |-> action, id |-> id, address |-> address, capabilities |-> caps,
   status |-> status, limit |-> limit, offset |-> offset]

Response(status, error, id, rows) ==
  [status |-> status, error |-> error, id |-> id, agents |-> rows]

Outcome(table, response, threw) ==
  [table |-> table, response |-> response, threw |-> threw]

NoResponse == Response("error", "threw", NoId, <<>>)

----------------------------------------------------------------------------
(* The handlers of the hub.  Each gives the set of outcomes of the handler's *)
(* statement against the table: the new table, the response the handler     *)
(* returns, or that the statement threw.                                     *)

(* INSERT INTO agents: the primary key on id rejects a second row *)
InsertOverwrites(table, row) ==
  IF \E i \in DOMAIN table : table[i].id = row.id
    THEN [ok |-> TRUE,
          table |-> [i \in DOMAIN table |->
                       IF table[i].id = row.id THEN row ELSE table[i]]]
    ELSE [ok |-> TRUE, table |-> Append(table, row)]

Insert(table, row) ==
  IF \E i \in DOMAIN table : table[i].id = row.id
    THEN [ok |-> FALSE, table |-> table]
    ELSE [ok |-> TRUE, table |-> Append(table, row)]

AgentAddress(remoteIP, address) ==
  IF address # NoAddress /\ address.port # 0
    THEN [host |-> remoteIP, port |-> address.port]
    ELSE [host |-> remoteIP, port |-> 0]

handleRegister(req, remoteIP, id) ==
  LET agentAddress == AgentAddress(remoteIP, req.address)
      row == [id |-> id, address |-> agentAddress,
              capabilities |-> req.capabilities, status |-> "online",
              last_seen |-> now]
      ins == Insert(agents, row)
  IN  IF ins.ok
        THEN {Outcome(ins.table,
                      Response("ok", "", id, <<[id |-> id, address |-> agentAddress]>>),
                      FALSE)}
        ELSE {Outcome(agents, NoResponse, TRUE)}

handleHeartbeat(req) ==
  {Outcome([i \in DOMAIN agents |->
              IF agents[i].id = req.id
                THEN [agents[i] EXCEPT !.last_seen = now, !.status = "online"]
                ELSE agents[i]],
           Response("ok", "", NoId, <<>>), FALSE)}

handleStatus(req) ==
  {Outcome([i \in DOMAIN agents |->
              IF agents[i].id = req.id
                THEN [agents[i] EXCEPT
                        !.last_seen = now,
                        !.status = IF req.status # "" THEN req.status ELSE @]
                ELSE agents[i]],
           Response("ok", "", NoId, <<>>), FALSE)}

handleDisconnect(req) ==
  {Outcome(SetStatus(agents, req.id, "offline"),
           Response("ok", "", NoId, <<>>), FALSE)}

handleLookup(req) ==
  IF req.id \in RowIds
    THEN {Outcome(agents, Response("ok", "", NoId, <<RowOf(req.id)>>), FALSE)}
    ELSE {Outcome(agents, Response("error", "agent_not_found", NoId, <<>>), FALSE)}

(* The WHERE clause handleDiscover builds *)
DiscoverWhereKeepsOffline(r, req) ==
  /\ req.id # NoId => r.id # req.id
  /\ req.capabilities # {} => r.capabilities \cap req.capabilities # {}
  /\ req.status # "" => r.status = req.status

DiscoverWhereAllOf(r, req) ==
  /\ r.status # "offline"
  /\ req.id # NoId => r.id # req.id
  /\ req.capabilities # {} => req.capabilities \subseteq r.capabilities
  /\ req.status # "" => r.status = req.status

DiscoverWhere(r, req) ==
  /\ r.status # "offline"
  /\ req.id # NoId => r.id # req.id
  /\ req.capabilities # {} => r.capabilities \cap req.capabilities # {}
  /\ req.status # "" => r.status = req.status

(* EXTRACT(EPOCH FROM (NOW() - last_seen))::int, the column ORDER BY names *)
LastSeenSeconds(r) == now - r.last_seen

(* The orders ORDER BY last_seen ASC may give the rows of S: rows with the *)
(* same key come in any order                                               *)
OrderedBy(S) ==
  {s \in [1..Cardinality(S) -> S] :
     /\ \A i, j \in DOMAIN s : i # j => s[i] # s[j]
     /\ \A i, j \in DOMAIN s :
          i < j => LastSeenSeconds(s[i]) <= LastSeenSeconds(s[j])}

QueryLimit(req) ==
  Min(IF req.limit # 0 THEN req.limit ELSE CONFIG_defaultLimit, CONFIG_maxLimit)

QueryOffset(req) == req.offset

(* LIMIT l OFFSET o *)
LimitOffset(s, l, o) == SubSeq(s, o + 1, Min(Len(s), o + l))

(* A row as handleDiscover returns it: lastSeen is the row's age in seconds *)
DiscoverRow(r) ==
  [id |-> r.id, address |-> r.address, capabilities |-> r.capabilities,
   status |-> r.status, lastSeen |-> LastSeenSeconds(r)]

(* handleDiscover; the statement is refused when its LIMIT or OFFSET is *)
(* negative, and the promise of pool.query rejects                     *)
handleDiscover(req) ==
  IF QueryLimit(req) < 0 \/ QueryOffset(req) < 0
    THEN {Outcome(agents, NoResponse, TRUE)}
    ELSE
  {Outcome(agents,
           Response("ok", "", NoId,
                    LET page == LimitOffset(s, QueryLimit(req), QueryOffset(req))
                    IN  [k \in DOMAIN page |-> DiscoverRow(page[k])]),
           FALSE) :
     s \in OrderedBy({r \in Rows : DiscoverWhere(r, req)})}

(* Math.min(limit || 10, CONFIG.maxLimit) of handleFind *)
FindLimit(req) == Min(IF req.limit # 0 THEN req.limit ELSE 10, CONFIG_maxLimit)

(* The orders ORDER BY last_seen DESC may give the rows of S *)
OrderedByDesc(S) ==
  {s \in [1..Cardinality(S) -> S] :
     /\ \A i, j \in DOMAIN s : i # j => s[i] # s[j]
     /\ \A i, j \in DOMAIN s : i < j => s[i].last_seen >= s[j].last_seen}

(* A row as handleFind returns it *)
FindRow(r) ==
  [id |-> r.id, address |-> r.address, capabilities |-> r.capabilities]

(* handleFind: the request's capability is the one element of its *)
(* capabilities (none: the parameter is null and no row matches)  *)
handleFind(req) ==
  IF FindLimit(req) < 0 \/ QueryOffset(req) < 0
    THEN {Outcome(agents, NoResponse, TRUE)}
    ELSE
  {Outcome(agents,
           Response("ok", "", NoId,
                    LET page == LimitOffset(s, FindLimit(req), QueryOffset(req))
                    IN  [k \in DOMAIN page |-> FindRow(page[k])]),
           FALSE) :
     s \in OrderedByDesc({r \in Rows :
                            /\ r.capabilities \cap req.capabilities # {}
                            /\ r.status = "online"})}

handleRequest(req, remoteIP, id) ==
  CASE req.action = "register" -> handleRegister(req, remoteIP, id)
    [] req.action = "heartbeat" -> handleHeartbeat(req)
    [] req.action = "discover" -> handleDiscover(req)
    [] req.action = "find" -> handleFind(req)
    [] req.action = "lookup" -> handleLookup(req)
    [] req.action = "status" -> handleStatus(req)
    [] req.action = "disconnect" -> handleDisconnect(req)
    [] OTHER -> {Outcome(agents, Response("error", "unknown_action", NoId, <<>>), FALSE)}

----------------------------------------------------------------------------
(* The hub's steps *)

(* wss.on('connection'): handleWebSocket *)
WsConnect(s) ==
  /\ wsState[s] = "new"
  /\ wsState' = [wsState EXCEPT ![s] = "open"]
  /\ UNCHANGED labVars
  /\ UNCHANGED <<msgVars, connVars>>
  /\ UNCHANGED <<agents, wsAgentId, clients, inflight, now, lastSweep,
                 cleanupPc, hubOp, issued, regOver>>

(* ws.on('message'), up to the await of handleRequest: the request is parsed *)
(* and its statement runs against the table; id is the id randomBytes gives  *)
WsMessageStep(s, req, id) ==
  /\ wsState[s] = "open"
  /\ \E o \in handleRequest(req, RemoteIP, id) :
       LET c == [sock |-> s, request |-> req, response |-> o.response,
                 threw |-> o.threw]
           inserted == req.action = "register" /\ ~o.threw
       IN  /\ c \notin inflight
           /\ agents' = o.table
           /\ inflight' = inflight \cup {c}
           /\ hubOp' = req.action
           /\ issued' = IF inserted THEN Append(issued, id) ELSE issued
           /\ regOver' = IF inserted
                           THEN [regOver EXCEPT ![s] = @ \cup {id}]
                           ELSE regOver
  /\ UNCHANGED <<wsState, wsAgentId, clients, now, lastSweep, cleanupPc>>

WsMessage(s, req, id) ==
  /\ WsMessageStep(s, req, id)
  /\ UNCHANGED labVars
  /\ UNCHANGED <<msgVars, connVars>>

(* ws.on('message'), after the await: agentId and this.clients are set for a *)
(* successful register, handleDisconnect drops its entry of this.clients,    *)
(* and the response is sent                                                  *)
WsRespondStep(c) ==
  /\ c \in inflight
  /\ inflight' = inflight \ {c}
  /\ IF ~c.threw /\ c.request.action = "register" /\ c.response.status = "ok"
       THEN /\ wsAgentId' = [wsAgentId EXCEPT ![c.sock] = c.response.id]
            /\ clients' = [clients EXCEPT ![c.response.id] = c.sock]
       ELSE /\ wsAgentId' = wsAgentId
            /\ clients' = IF ~c.threw /\ c.request.action = "disconnect"
                                      /\ c.request.id \in DOMAIN clients
                             THEN [clients EXCEPT ![c.request.id] = NoSock]
                             ELSE clients
  /\ UNCHANGED <<agents, wsState, now, lastSweep, cleanupPc, hubOp, issued,
                 regOver>>

WsRespond(c) ==
  /\ WsRespondStep(c)
  /\ UNCHANGED labVars
  /\ UNCHANGED <<msgVars, connVars>>

(* ws.on('close') *)
WsClose(s) ==
  /\ wsState[s] = "open"
  /\ wsState' = [wsState EXCEPT ![s] = "closed"]
  /\ IF wsAgentId[s] # NoId
       THEN /\ clients' = [clients EXCEPT ![wsAgentId[s]] = NoSock]
            /\ agents' = SetStatus(agents, wsAgentId[s], "offline")
            /\ hubOp' = "close"
       ELSE UNCHANGED <<clients, agents, hubOp>>
  /\ UNCHANGED labVars
  /\ UNCHANGED <<msgVars, connVars>>
  /\ UNCHANGED <<wsAgentId, inflight, now, lastSweep, cleanupPc, issued,
                 regOver>>

(* cleanup(), its first UPDATE; setInterval(cleanup, CONFIG.cleanup) *)
CleanupIdleAnyStatus ==
  /\ cleanupPc = "wait"
  /\ lastSweep + CONFIG_cleanup <= now
  /\ agents' = [i \in DOMAIN agents |->
                  IF agents[i].last_seen < now - IdleAfter
                    THEN [agents[i] EXCEPT !.status = "idle"]
                    ELSE agents[i]]
  /\ cleanupPc' = "mid"
  /\ hubOp' = "cleanup_idle"
  /\ UNCHANGED labVars
  /\ UNCHANGED <<msgVars, connVars>>
  /\ UNCHANGED <<wsState, wsAgentId, clients, inflight, now, lastSweep,
                 issued, regOver>>

CleanupIdle ==
  /\ cleanupPc = "wait"
  /\ lastSweep + CONFIG_cleanup <= now
  /\ agents' = [i \in DOMAIN agents |->
                  IF agents[i].status = "online"
                       /\ agents[i].last_seen < now - IdleAfter
                    THEN [agents[i] EXCEPT !.status = "idle"]
                    ELSE agents[i]]
  /\ cleanupPc' = "mid"
  /\ hubOp' = "cleanup_idle"
  /\ UNCHANGED labVars
  /\ UNCHANGED <<msgVars, connVars>>
  /\ UNCHANGED <<wsState, wsAgentId, clients, inflight, now, lastSweep,
                 issued, regOver>>

(* cleanup(), its second UPDATE *)
CleanupOfflineOnlineOnly ==
  /\ cleanupPc = "mid"
  /\ agents' = [i \in DOMAIN agents |->
                  IF agents[i].status = "online"
                       /\ agents[i].last_seen < now - OfflineAfter
                    THEN [agents[i] EXCEPT !.status = "offline"]
                    ELSE agents[i]]
  /\ cleanupPc' = "wait"
  /\ lastSweep' = now
  /\ hubOp' = "cleanup_offline"
  /\ UNCHANGED labVars
  /\ UNCHANGED <<msgVars, connVars>>
  /\ UNCHANGED <<wsState, wsAgentId, clients, inflight, now, issued,
                 regOver>>

CleanupOffline ==
  /\ cleanupPc = "mid"
  /\ agents' = [i \in DOMAIN agents |->
                  IF agents[i].status = "idle"
                       /\ agents[i].last_seen < now - OfflineAfter
                    THEN [agents[i] EXCEPT !.status = "offline"]
                    ELSE agents[i]]
  /\ cleanupPc' = "wait"
  /\ lastSweep' = now
  /\ hubOp' = "cleanup_offline"
  /\ UNCHANGED labVars
  /\ UNCHANGED <<msgVars, connVars>>
  /\ UNCHANGED <<wsState, wsAgentId, clients, inflight, now, issued,
                 regOver>>

(* CONFIG.cleanup seconds pass; the sweep that is due runs first *)
Tick(maxTicks) ==
  /\ cleanupPc = "wait"
  /\ lastSweep = now
  /\ now < maxTicks * CONFIG_cleanup
  /\ now' = now + CONFIG_cleanup
  /\ UNCHANGED labVars
  /\ UNCHANGED <<msgVars, connVars>>
  /\ UNCHANGED <<agents, wsState, wsAgentId, clients, inflight, lastSweep,
                 cleanupPc, hubOp, issued, regOver>>

(* The state after construction, the agent made with one of the given *)
(* autoReconnect options and with or without a listener of 'error'    *)
ProgramInit(autoReconnects, errorListeners) ==
  /\ agents = <<>>
  /\ wsState = [s \in Socks |-> "new"]
  /\ wsAgentId = [s \in Socks |-> NoId]
  /\ clients = [i \in Ids |-> NoSock]
  /\ inflight = {}
  /\ now = 0
  /\ lastSweep = 0
  /\ cleanupPc = "wait"
  /\ hubOp = "none"
  /\ issued = <<>>
  /\ regOver = [s \in Socks |-> {}]
  /\ procUp = [p \in Procs |-> FALSE]
  /\ agentId = [p \in Procs |-> NoId]
  /\ agentCache = [p \in Procs |-> [i \in PeerIds |-> NoEntry]]
  /\ sessions = <<>>
  /\ requests = <<>>
  /\ dispatched = <<>>
  /\ responded = <<>>
  /\ broadcasts = <<>>
  /\ autoReconnect \in autoReconnects
  /\ errorListener \in errorListeners
  /\ connected = FALSE
  /\ crashed = FALSE
  /\ ws = <<>>
  /\ pendingRequests = {}
  /\ reconnectTimer = NoTimer
  /\ heartbeatTimer = NoTimer
  /\ emitted = ""
  /\ owed = NoTimer
  /\ disconnectPc = "none"

(* No call of Crypto is under way and no bytes are on their way *)
NoTransfer ==
  /\ plaintext = ""
  /\ sealKey = {}
  /\ sealed = ""
  /\ unsealed = ""
  /\ frames = <<>>
  /\ wire = <<>>
  /\ buffer = <<>>
  /\ lines = <<>>

InitWith(autoReconnects, errorListeners) ==
  ProgramInit(autoReconnects, errorListeners) /\ NoTransfer

HubInit == InitWith({TRUE}, {FALSE})

----------------------------------------------------------------------------
(* SpecSocket: the control sockets of the hub, with the requests of a      *)
(* socket handled concurrently with its close.  The clock stands still.    *)

SocketRequests ==
  {Request("register", NoId, NoAddress, {}, "", 0, 0)}
    \cup {Request("heartbeat", i, NoAddress, {}, "", 0, 0) : i \in Ids}

SocketNext ==
  \/ \E s \in Socks : WsConnect(s)
  \/ \E s \in Socks, req \in SocketRequests, id \in Ids :
       /\ \A c \in inflight : c.sock # s
       /\ WsMessage(s, req, id)
  \/ \E c \in inflight : WsRespond(c)
  \/ \E s \in Socks : WsClose(s)

SpecSocket == HubInit /\ [][SocketNext]_vars

(* C7: after the hub has handled the close of a control socket, every      *)
(* record registered over that socket has status offline.                  *)
C7_ClosedSocketRecordsOffline ==
  \A s \in Socks :
    wsState[s] = "closed" => \A id \in regOver[s] : RowOf(id).status = "offline"

(* C9: no two rows share an id, no id is given to two registrations, and   *)
(* the row of every registration stays in the table.                       *)
C9_IdsUniqueNeverReused ==
  /\ \A i, j \in DOMAIN agents : i # j => agents[i].id # agents[j].id
  /\ \A i, j \in DOMAIN issued : i # j => issued[i] # issued[j]
  /\ \A i \in DOMAIN issued : issued[i] \in RowIds

(* A register whose minted id was already taken has failed *)
C9_Witness ==
  \E c \in inflight :
    c.request.action = "register" /\ c.threw /\ Len(agents) >= 1

----------------------------------------------------------------------------
(* SpecStatus: the status of a record under every control message, the     *)
(* close of its socket and the sweeper, which runs every CONFIG.cleanup     *)
(* seconds.  One control socket carries the requests.                      *)

MaxTicks == 11

StatusValues == {"", "online", "idle", "busy"}

StatusIds == {1}

StatusRequests ==
  {Request("register", NoId, NoAddress, {}, "", 0, 0)}
    \cup {Request(a, i, NoAddress, {}, "", 0, 0) :
            a \in {"heartbeat", "disconnect"}, i \in StatusIds}
    \cup {Request("status", i, NoAddress, {}, st, 0, 0) :
            i \in StatusIds, st \in StatusValues}

StatusNext ==
  \/ WsConnect(1)
  \/ \E req \in StatusRequests, id \in StatusIds :
       /\ inflight = {}
       /\ WsMessage(1, req, id)
  \/ \E c \in inflight : WsRespond(c)
  \/ WsClose(1)
  \/ CleanupIdle
  \/ CleanupOffline
  \/ Tick(MaxTicks)

SpecStatus == HubInit /\ [][StatusNext]_vars

(* The request whose statement ran in this step *)
StepRequest == (CHOOSE c \in inflight' \ inflight : TRUE).request

(* C5: once a record's status is offline, no heartbeat, status or          *)
(* disconnect message and no sweep makes it non-offline again.             *)
C5_OfflineIsFinal ==
  [][\A i \in DOMAIN agents :
       agents[i].status = "offline" => agents'[i].status = "offline"]_vars

ClaimedChange(old, new, op) ==
  \/ op = "cleanup_idle" /\ old = "online" /\ new = "idle"
  \/ op = "cleanup_offline" /\ old = "idle" /\ new = "offline"
  \/ op \in {"disconnect", "close"} /\ new = "offline"
  \/ op \in {"heartbeat", "register"} /\ new = "online"

----------------------------------------------------------------------------
(* SpecSweep: an agent that registers, heartbeats and then goes silent     *)
(* while its socket stays open; the sweeper runs every CONFIG.cleanup      *)
(* seconds and discover requests are answered throughout.                  *)

SweepRequests ==
  {Request("register", NoId, NoAddress, {}, "", 0, 0),
   Request("heartbeat", 1, NoAddress, {}, "", 0, 0),
   Request("discover", NoId, NoAddress, {}, "", 0, 0)}

SweepNext ==
  \/ WsConnect(1)
  \/ \E req \in SweepRequests :
       /\ inflight = {}
       /\ WsMessage(1, req, 1)
  \/ \E c \in inflight : WsRespond(c)
  \/ CleanupIdle
  \/ CleanupOffline
  \/ Tick(MaxTicks)

SpecSweep == HubInit /\ [][SweepNext]_vars

(* The sweep that is due at this instant has run / has run its first UPDATE *)
SweptNow == lastSweep = now /\ cleanupPc = "wait"

SweptIdleNow == lastSweep = now \/ cleanupPc = "mid"

(* C8 as stated: a record is idle no later than 2 minutes after its last   *)
(* heartbeat and offline no later than 5 minutes after it.                 *)
C8_IdleBy2MinOfflineBy5Min ==
  \A r \in Rows :
    SweptNow =>
      /\ now - r.last_seen >= IdleAfter => r.status # "online"
      /\ now - r.last_seen >= OfflineAfter => r.status = "offline"

(* C8 as amended: a record that gets no control message after a heartbeat  *)
(* is idle after the first sweep that runs more than 2 minutes after that  *)
(* heartbeat, so within 2 min 30 s, and offline after the first sweep more *)
(* than 5 minutes after it, so within 5 min 30 s; no discover returns a    *)
(* record that is offline or whose last heartbeat is older than that.      *)
C8_IdleBy150sOfflineBy330s ==
  /\ \A r \in Rows :
       /\ r.status = "online" =>
            /\ now - r.last_seen <= IdleAfter + CONFIG_cleanup
            /\ SweptIdleNow => now - r.last_seen <= IdleAfter
       /\ r.status = "idle" =>
            /\ now - r.last_seen <= OfflineAfter + CONFIG_cleanup
            /\ SweptNow => now - r.last_seen <= OfflineAfter
  /\ \A c \in inflight :
       c.request.action = "discover" =>
         \A k \in DOMAIN c.response.agents :
           /\ c.response.agents[k].status # "offline"
           /\ c.response.agents[k].lastSeen <= OfflineAfter + CONFIG_cleanup

(* The sweeper has taken a silent record to offline 330 s after its last   *)
(* heartbeat, and a discover handled after that returns nothing            *)
C8_Witness ==
  /\ hubOp = "discover"
  /\ \E r \in Rows :
       r.status = "offline" /\ now - r.last_seen = OfflineAfter + CONFIG_cleanup
  /\ \E c \in inflight :
       c.request.action = "discover" /\ c.response.agents = <<>>

----------------------------------------------------------------------------
(* SpecDiscover: discover over every registry two registrations, status    *)
(* and disconnect requests and the clock can produce, for every            *)
(* combination of its filters.                                             *)

DiscoverTicks == 1

DiscoverIds == {1, 2}

(* limit and offset: absent, a page of one, the second page, over the cap *)
DiscoverPages == {<<0, 0>>, <<1, 0>>, <<1, 1>>, <<600, 1>>}

DiscoverRequests ==
  {Request("discover", i, NoAddress, caps, st, pg[1], pg[2]) :
     i \in {NoId, 1}, caps \in {{}, {"echo"}, {"chat", "echo"}},
     st \in {"", "idle", "offline"}, pg \in DiscoverPages}

RegistryRequests ==
  {Request("register", NoId, NoAddress, caps, "", 0, 0) :
     caps \in {{}, {"chat"}}}
    \cup {Request("status", i, NoAddress, {}, "idle", 0, 0) : i \in DiscoverIds}
    \cup {Request("disconnect", i, NoAddress, {}, "", 0, 0) : i \in DiscoverIds}

DiscoverNext ==
  \/ WsConnect(1)
  \/ \E req \in RegistryRequests \cup DiscoverRequests, id \in DiscoverIds :
       /\ inflight = {}
       /\ WsMessage(1, req, id)
  \/ \E c \in inflight : WsRespond(c)
  \/ CleanupIdle
  \/ CleanupOffline
  \/ Tick(DiscoverTicks)

SpecDiscover == HubInit /\ [][DiscoverNext]_vars

(* C3: no agent in a discover response has status offline, whatever the    *)
(* request's filters.                                                      *)
C3_DiscoverNeverReturnsOffline ==
  \A c \in inflight :
    c.request.action = "discover" =>
      \A k \in DOMAIN c.response.agents :
        c.response.agents[k].status # "offline"

(* A discover that asks for status offline, handled while the registry     *)
(* holds an offline record, returns nothing                                *)
C3_Witness ==
  /\ hubOp = "discover"
  /\ \E r \in Rows : r.status = "offline"
  /\ \E c \in inflight :
       c.request.action = "discover" /\ c.request.status = "offline"
         /\ c.response.agents = <<>>

(* The records C4 says a discover request selects *)
C4_Selected(q) ==
  {r \in Rows :
     /\ r.status # "offline"
     /\ q.id # NoId => r.id # q.id
     /\ q.capabilities # {} => \E l \in q.capabilities : l \in r.capabilities
     /\ q.status # "" => r.status = q.status}

C4_Limit(q) == IF q.limit = 0 THEN 100 ELSE Min(q.limit, 500)

PageRequest(L, k) == Request("discover", NoId, NoAddress, {}, "", L, k * L)

(* The sets of ids the page may hold, one for each order the query may *)
(* give the rows                                                       *)
PageIds(L, k) ==
  {{o.response.agents[i].id : i \in DOMAIN o.response.agents} :
     o \in handleDiscover(PageRequest(L, k))}

(* The ids of the records the filters of PageRequest select *)
MatchingIds == {r.id : r \in {x \in Rows : DiscoverWhere(x, PageRequest(1, 0))}}

PageLimits == {1, 2}

(* C20: while no record changes, the pages discover(limit = L, offset =   *)
(* k * L), k = 0, 1, ..., each the answer to a query of its own, are      *)
(* pairwise disjoint and their union is the set of records that match,    *)
(* for every L >= 1 and also when records have the same ordering key.     *)
C20_PagesPartition ==
  \A L \in PageLimits :
    LET last == (Cardinality(MatchingIds) + L - 1) \div L
    IN  \A page \in [0..last -> SUBSET MatchingIds] :
          (\A k \in 0..last : page[k] \in PageIds(L, k)) =>
            /\ \A k, l \in 0..last : k # l => page[k] \cap page[l] = {}
            /\ UNION {page[k] : k \in 0..last} = MatchingIds

----------------------------------------------------------------------------
(* SpecFind: discover and find over the registries two registrations and *)
(* a status request can produce, with and without a limit                *)

FindLimits == {0, 1, 100, 500, 501, 600}

FindRequests ==
  {Request(action, NoId, NoAddress, {"chat"}, "", limit, offset) :
     action \in {"discover", "find"}, limit \in FindLimits, offset \in {0, 1}}

FindNext ==
  \/ WsConnect(1)
  \/ \E req \in RegistryRequests \cup FindRequests, id \in DiscoverIds :
       /\ inflight = {}
       /\ WsMessage(1, req, id)
  \/ \E c \in inflight : WsRespond(c)
  \/ Tick(DiscoverTicks)

SpecFind == HubInit /\ [][FindNext]_vars

(* The limit the handler of the request puts in its query *)
EffectiveLimit(req) ==
  IF req.action = "find" THEN FindLimit(req) ELSE QueryLimit(req)

(* C21: for discover and for find alike, the effective limit is 100 when *)
(* the request gives no limit and never more than 500, so no response    *)
(* holds more than 500 agents.                                           *)
C21_DefaultAndMaxLimit ==
  \A c \in inflight :
    c.request.action \in {"discover", "find"} =>
      /\ c.request.limit = 0 => EffectiveLimit(c.request) = CONFIG_defaultLimit
      /\ EffectiveLimit(c.request) <= CONFIG_maxLimit
      /\ Len(c.response.agents) <= EffectiveLimit(c.request)

----------------------------------------------------------------------------
(* The agent: payloads and Crypto.                                         *)
(*                                                                         *)
(* A JavaScript value is a record: t its type and v its content, and for   *)
(* an object correlationId its property of that name (NoCorr when it has   *)
(* none).  A text is what a cipher carries: JSON text, kept as the value   *)
(* it parses to, or characters that JSON.parse rejects.                    *)

NoCorr == 0

Null == [t |-> "null", v |-> "", correlationId |-> NoCorr]

Str(s) == [t |-> "string", v |-> s, correlationId |-> NoCorr]

Num(n) == [t |-> "number", v |-> n, correlationId |-> NoCorr]

Obj(v) == [t |-> "object", v |-> v, correlationId |-> NoCorr]

(* The strings of the model that are JSON text, with the value JSON.parse *)
(* gives for each                                                         *)
JSONparse(chars) ==
  CASE chars = "7" -> Num("7")
    [] chars = "null" -> Null

IsJSON(chars) == chars \in {"7", "null"}

JSONstringify(data) == [parses |-> TRUE, value |-> data, chars |-> ""]

(* The text of a string: its characters *)
TextOfString(chars) ==
  IF IsJSON(chars)
    THEN [parses |-> TRUE, value |-> JSONparse(chars), chars |-> ""]
    ELSE [parses |-> FALSE, value |-> Null, chars |-> chars]

(* One key pair per end, generated once and used for every connection *)
generateKeyPairOnce(s, end) == [session |-> 1, end |-> end]

(* generateKeyPair for one end of connection s, its public half exported *)
generateKeyPair(s, end) == [session |-> s, end |-> end]

NoKey == {}

(* X25519: both ends derive the same secret from their own pair and the *)
(* other's public key                                                   *)
deriveKey(privateKey, publicKey) == {privateKey, publicKey}

encrypt(data, key) ==
  [key |-> key,
   text |-> IF data.t = "string" THEN TextOfString(data.v)
                                 ELSE JSONstringify(data)]

(* null when the tag does not verify; else JSON.parse of the text, or the *)
(* text itself when that throws                                           *)
decrypt(encrypted, key) ==
  IF encrypted.key # key
    THEN Null
    ELSE IF encrypted.text.parses THEN encrypted.text.value
                                  ELSE Str(encrypted.text.chars)

ResponseType(type) ==
  IF type = "task" THEN "task:response" ELSE "task:response:response"

(* { ...payload, correlationId } *)
WithCorrelationId(payload, correlationId) ==
  [payload EXCEPT !.correlationId = correlationId]

CacheTTL == 60

Frame(type, key, from, messageType, data, correlationId, error) ==
  [type |-> type, key |-> key, from |-> from, messageType |-> messageType,
   data |-> data, correlationId |-> correlationId, error |-> error]

NoData == [key |-> NoKey, text |-> TextOfString("")]

(* { action: 'lookup', id: agentId } *)
LookupRequest(agentIdArg) ==
  Request("lookup", agentIdArg, NoAddress, {}, "", 0, 0)

(* _resolveAgent with the cache updated before the status is looked at *)
resolveAgentCachesOffline(p, agentIdArg) ==
  LET cached == agentCache[p][agentIdArg]
  IN  IF cached # NoEntry /\ now - cached.lastSeen < CacheTTL
        THEN {[ok |-> TRUE, address |-> cached.address,
               cache |-> agentCache[p], error |-> "",
               asked |-> <<>>, table |-> agents]}
        ELSE {LET response == o.response
                  found == response.status = "ok" /\ response.agents # <<>>
                  offline == found /\ response.agents[1].status = "offline"
              IN  [ok |-> found /\ ~offline,
                   address |-> IF found /\ ~offline
                                 THEN response.agents[1].address
                                 ELSE NoAddress,
                   cache |-> IF found
                               THEN [agentCache[p] EXCEPT ![agentIdArg] =
                                       [address |-> response.agents[1].address,
                                        lastSeen |-> now]]
                               ELSE agentCache[p],
                   error |-> IF ~found THEN "Agent not found"
                             ELSE IF offline THEN "Agent is offline" ELSE "",
                   asked |-> <<LookupRequest(agentIdArg)>>,
                   table |-> o.table]
              : o \in handleLookup(LookupRequest(agentIdArg))}

(* _resolveAgent with an entry still taken as fresh at the age of CacheTTL *)
resolveAgentFreshAtTTL(p, agentIdArg) ==
  LET cached == agentCache[p][agentIdArg]
  IN  IF cached # NoEntry /\ now - cached.lastSeen <= CacheTTL
        THEN {[ok |-> TRUE, address |-> cached.address,
               cache |-> agentCache[p], error |-> "",
               asked |-> <<>>, table |-> agents]}
        ELSE {LET response == o.response
                  found == response.status = "ok" /\ response.agents # <<>>
                  offline == found /\ response.agents[1].status = "offline"
              IN  [ok |-> found /\ ~offline,
                   address |-> IF found /\ ~offline
                                 THEN response.agents[1].address
                                 ELSE NoAddress,
                   cache |-> IF found /\ ~offline
                               THEN [agentCache[p] EXCEPT ![agentIdArg] =
                                       [address |-> response.agents[1].address,
                                        lastSeen |-> now]]
                               ELSE agentCache[p],
                   error |-> IF ~found THEN "Agent not found"
                             ELSE IF offline THEN "Agent is offline" ELSE "",
                   asked |-> <<LookupRequest(agentIdArg)>>,
                   table |-> o.table]
              : o \in handleLookup(LookupRequest(agentIdArg))}

(* _resolveAgent: the cached address while fresh, else the hub's lookup; *)
(* each result carries the cache the call leaves, what the call asked    *)
(* the hub and the table the hub is left with                            *)
resolveAgent(p, agentIdArg) ==
  LET cached == agentCache[p][agentIdArg]
  IN  IF cached # NoEntry /\ now - cached.lastSeen < CacheTTL
        THEN {[ok |-> TRUE, address |-> cached.address,
               cache |-> agentCache[p], error |-> "",
               asked |-> <<>>, table |-> agents]}
        ELSE {LET response == o.response
                  lookup == [asked |-> <<LookupRequest(agentIdArg)>>,
                             table |-> o.table]
              IN  IF response.status # "ok" \/ response.agents = <<>>
                    THEN [ok |-> FALSE, address |-> NoAddress,
                          cache |-> agentCache[p], error |-> "Agent not found",
                          asked |-> lookup.asked, table |-> lookup.table]
                    ELSE IF response.agents[1].status = "offline"
                      THEN [ok |-> FALSE, address |-> NoAddress,
                            cache |-> agentCache[p],
                            error |-> "Agent is offline",
                            asked |-> lookup.asked, table |-> lookup.table]
                      ELSE [ok |-> TRUE,
                            address |-> response.agents[1].address,
                            cache |-> [agentCache[p] EXCEPT ![agentIdArg] =
                                         [address |-> response.agents[1].address,
                                          lastSeen |-> now]],
                            error |-> "",
                            asked |-> lookup.asked, table |-> lookup.table]
              : o \in handleLookup(LookupRequest(agentIdArg))}

(* The operation tells the hub the type of its message *)
SessionTellsType(p, kind, to, resolved, type, payload, correlationId) ==
  [from |-> p, kind |-> kind, to |-> to, address |-> resolved.address,
   type |-> type, payload |-> payload, correlationId |-> correlationId,
   state |-> IF resolved.ok THEN "connecting" ELSE "rejected",
   error |-> resolved.error,
   sessionKey |-> NoKey, out |-> <<>>,
   peer |-> "", peerKey |-> NoKey, peerId |-> NoId, in |-> <<>>,
   closed |-> FALSE,
   asked |-> [i \in DOMAIN resolved.asked |->
                [resolved.asked[i] EXCEPT !.status = type]]]

(* The connection _sendEncrypted opens, or the rejection of the call when *)
(* the address did not resolve; asked is what the operation that opened   *)
(* it sent to the hub                                                     *)
Session(p, kind, to, resolved, type, payload, correlationId) ==
  [from |-> p, kind |-> kind, to |-> to, address |-> resolved.address,
   type |-> type, payload |-> payload, correlationId |-> correlationId,
   state |-> IF resolved.ok THEN "connecting" ELSE "rejected",
   error |-> resolved.error,
   sessionKey |-> NoKey, out |-> <<>>,
   peer |-> "", peerKey |-> NoKey, peerId |-> NoId, in |-> <<>>,
   closed |-> FALSE, asked |-> resolved.asked]

----------------------------------------------------------------------------
(* The agent: operations.  A call of the control channel (register,        *)
(* lookup, discover, disconnect) is taken with the hub's handler as one    *)
(* step; a P2P connection is taken line by line.                           *)

(* connect(): the server listens on the port and the hub registers *)
AgentUp(p, id) ==
  /\ ~procUp[p]
  /\ agentId[p] = NoId
  /\ \A q \in Procs : procUp[q] => Addr(q) # Addr(p)
  /\ \E o \in handleRegister(Request("register", NoId, Addr(p), {}, "", 0, 0),
                             Addr(p).host, id) :
       /\ ~o.threw
       /\ agents' = o.table
       /\ agentId' = [agentId EXCEPT ![p] = o.response.id]
  /\ procUp' = [procUp EXCEPT ![p] = TRUE]
  /\ UNCHANGED labVars
  /\ UNCHANGED broadcasts
  /\ UNCHANGED <<agentCache, sessions, requests, dispatched, responded>>
  /\ UNCHANGED <<wsState, wsAgentId, clients, inflight, now, lastSweep,
                 cleanupPc, hubOp, issued, regOver>>
  /\ UNCHANGED connVars

(* disconnect(): the hub marks the record offline, the server closes *)
AgentDown(p) ==
  /\ procUp[p]
  /\ \E o \in handleDisconnect(Request("disconnect", agentId[p], NoAddress,
                                       {}, "", 0, 0)) :
       agents' = o.table
  /\ procUp' = [procUp EXCEPT ![p] = FALSE]
  /\ UNCHANGED labVars
  /\ UNCHANGED broadcasts
  /\ UNCHANGED <<agentId, agentCache, sessions, requests, dispatched,
                 responded>>
  /\ UNCHANGED <<wsState, wsAgentId, clients, inflight, now, lastSweep,
                 cleanupPc, hubOp, issued, regOver>>
  /\ UNCHANGED connVars

(* { action: 'discover', id: this.id, status: options.status } *)
DiscoverRequest(p, status) ==
  Request("discover", agentId[p], NoAddress, {}, status, 0, 0)

(* this.agentCache once discover() has stored the agents found *)
Cached(p, found) ==
  [i \in PeerIds |->
     IF \E k \in DOMAIN found : found[k].id = i
       THEN [address |-> (CHOOSE a \in {found[k] : k \in DOMAIN found} :
                            a.id = i).address,
             lastSeen |-> now]
       ELSE agentCache[p][i]]

(* discover(): every agent returned is put in the cache *)
discover(p) ==
  /\ procUp[p]
  /\ \E o \in handleDiscover(DiscoverRequest(p, "")) :
       agentCache' = [agentCache EXCEPT ![p] = Cached(p, o.response.agents)]
  /\ UNCHANGED labVars
  /\ UNCHANGED broadcasts
  /\ UNCHANGED <<procUp, agentId, sessions, requests, dispatched, responded>>
  /\ UNCHANGED <<hubVars, connVars>>

SessionIds == {1, 2}

(* crypto.randomBytes(8): an id no earlier call was given *)
randomBytes == Len(sessions) + 1

(* send(to, type, payload) *)
send(p, to, type, payload) ==
  /\ procUp[p]
  /\ Len(sessions) + 1 \in SessionIds
  /\ \E correlationId \in {randomBytes}, r \in resolveAgent(p, to) :
       /\ agentCache' = [agentCache EXCEPT ![p] = r.cache]
       /\ sessions' = Append(sessions,
                             Session(p, "send", to, r, type, payload,
                                     correlationId))
  /\ UNCHANGED labVars
  /\ UNCHANGED broadcasts
  /\ UNCHANGED <<procUp, agentId, requests, dispatched, responded>>
  /\ UNCHANGED <<hubVars, connVars>>

(* Whether a process runs the agent registered under id *)
Running(id) == \E q \in Procs : procUp[q] /\ agentId[q] = id

(* The default timeout of request(), in seconds *)
RequestTimeout == 30

(* request(to, type, payload): the handler is registered and the timer set *)
(* before the send; a send that fails rejects the request, clears the      *)
(* timer and removes the handler                                           *)
request(p, to, type, payload) ==
  /\ procUp[p]
  /\ Len(sessions) + 1 \in SessionIds
  /\ \E correlationId \in {randomBytes}, r \in resolveAgent(p, to) :
       /\ agentCache' = [agentCache EXCEPT ![p] = r.cache]
       /\ sessions' = Append(sessions,
                             Session(p, "request", to, r, type,
                                     WithCorrelationId(payload, correlationId),
                                     correlationId))
       /\ requests' = Append(requests,
                             [by |-> p, to |-> to, type |-> type,
                              correlationId |-> correlationId,
                              state |-> IF r.ok THEN "pending" ELSE "rejected",
                              error |-> r.error,
                              toUp |-> Running(to),
                              value |-> Null, event |-> 0,
                              session |-> Len(sessions) + 1,
                              deadline |-> now + RequestTimeout,
                              listener |-> r.ok, timer |-> r.ok])
  /\ UNCHANGED labVars
  /\ UNCHANGED broadcasts
  /\ UNCHANGED <<procUp, agentId, dispatched, responded>>
  /\ UNCHANGED <<hubVars, connVars>>

(* The timer of request() that rejects and leaves the handler listening *)
RequestTimedOutStillListens(k) ==
  /\ requests[k].state = "pending"
  /\ requests' = [requests EXCEPT ![k].state = "rejected",
                                  ![k].error = "Request timeout",
                                  ![k].timer = FALSE]
  /\ UNCHANGED labVars
  /\ UNCHANGED broadcasts
  /\ UNCHANGED <<procUp, agentId, agentCache, sessions, dispatched,
                 responded>>
  /\ UNCHANGED <<hubVars, connVars>>

(* The timer of request(), at whatever time it fires *)
RequestTimedOut(k) ==
  /\ requests[k].state = "pending"
  /\ requests' = [requests EXCEPT ![k].state = "rejected",
                                  ![k].error = "Request timeout",
                                  ![k].listener = FALSE,
                                  ![k].timer = FALSE]
  /\ UNCHANGED labVars
  /\ UNCHANGED broadcasts
  /\ UNCHANGED <<procUp, agentId, agentCache, sessions, dispatched,
                 responded>>
  /\ UNCHANGED <<hubVars, connVars>>

(* respond(originalMessage, responsePayload), for a message the process *)
(* was dispatched and has not answered                                  *)
respond(p, e, responsePayload) ==
  /\ procUp[p]
  /\ Len(sessions) + 1 \in SessionIds
  /\ dispatched[e].at = p
  /\ dispatched[e].from \in PeerIds
  /\ \A k \in DOMAIN responded : responded[k].event # e
  /\ \E r \in resolveAgent(p, dispatched[e].from) :
       /\ agentCache' = [agentCache EXCEPT ![p] = r.cache]
       /\ sessions' = Append(sessions,
                             Session(p, "respond", dispatched[e].from, r,
                                     ResponseType(dispatched[e].type),
                                     responsePayload,
                                     dispatched[e].correlationId))
  /\ responded' = Append(responded,
                         [by |-> agentId[p], event |-> e,
                          correlationId |-> dispatched[e].correlationId,
                          payload |-> responsePayload])
  /\ UNCHANGED labVars
  /\ UNCHANGED broadcasts
  /\ UNCHANGED <<procUp, agentId, requests, dispatched>>
  /\ UNCHANGED <<hubVars, connVars>>

(* The rejection of _sendEncrypted: request() catches it and rejects too *)
RejectRequestOf(s, error) ==
  [k \in DOMAIN requests |->
     IF requests[k].session = s /\ requests[k].state = "pending"
       THEN [requests[k] EXCEPT !.state = "rejected", !.error = error,
                                !.listener = FALSE, !.timer = FALSE]
       ELSE requests[k]]

(* The callbacks broadcast() maps over the peers, failing fast: a send *)
(* that rejects rejects the broadcast                                 *)
SettleBroadcastFailFast(s, delivered, error) ==
  [b \in DOMAIN broadcasts |->
     IF s \notin broadcasts[b].sessions
       THEN broadcasts[b]
       ELSE IF delivered
         THEN [broadcasts[b] EXCEPT !.delivered = @ + 1]
         ELSE [broadcasts[b] EXCEPT !.state = "rejected"]]

(* The callback broadcast() maps over the peers, for the peer of          *)
(* connection s once _sendEncrypted settled, and Promise.allSettled: the  *)
(* broadcast resolves when the last of its sends has settled              *)
SettleBroadcast(s, delivered, error) ==
  [b \in DOMAIN broadcasts |->
     IF s \notin broadcasts[b].sessions
       THEN broadcasts[b]
       ELSE LET counted ==
                  IF delivered
                    THEN [broadcasts[b] EXCEPT !.delivered = @ + 1]
                    ELSE [broadcasts[b] EXCEPT
                            !.failed = @ + 1,
                            !.errors = Append(@, [agent |-> sessions[s].to,
                                                  error |-> error])]
                allSettled ==
                  \A t \in broadcasts[b].sessions \ {s} :
                    sessions[t].state \in {"resolved", "rejected"}
            IN  [counted EXCEPT !.state = IF allSettled THEN "resolved"
                                                       ELSE @]]

(* socket.on('connect') and socket.on('error') of _sendEncrypted: the   *)
(* process listening at the address accepts, or the connection is       *)
(* refused                                                              *)
PeerConnect(s) ==
  /\ sessions[s].state = "connecting"
  /\ LET listening == {q \in Procs : procUp[q] /\ Addr(q) = sessions[s].address}
     IN  IF listening = {}
           THEN /\ sessions' = [sessions EXCEPT ![s].state = "rejected",
                                                ![s].error = "ECONNREFUSED"]
                /\ requests' = RejectRequestOf(s, "ECONNREFUSED")
                /\ broadcasts' = SettleBroadcast(s, FALSE, "ECONNREFUSED")
           ELSE /\ \E q \in listening :
                     sessions' =
                       [sessions EXCEPT
                          ![s].state = "open",
                          ![s].peer = q,
                          ![s].out = <<Frame("handshake",
                                             generateKeyPair(s, "initiator"),
                                             agentId[sessions[s].from], "",
                                             NoData, NoCorr, "")>>]
                /\ UNCHANGED <<requests, broadcasts>>
  /\ UNCHANGED labVars
  /\ UNCHANGED <<procUp, agentId, agentCache, dispatched, responded>>
  /\ UNCHANGED <<hubVars, connVars>>

(* The events the handlers of request() take: a pending request of the *)
(* process with the correlation id and the response type is resolved   *)
(* with the payload                                                    *)
ResolveRequests(q, type, payload, correlationId, e) ==
  [k \in DOMAIN requests |->
     IF /\ requests[k].by = q
        /\ requests[k].state = "pending"
        /\ requests[k].correlationId = correlationId
        /\ ResponseType(requests[k].type) = type
       THEN [requests[k] EXCEPT !.state = "resolved", !.value = payload,
                                !.event = e, !.listener = FALSE,
                                !.timer = FALSE]
       ELSE requests[k]]

(* { error: 'decryption_failed' } *)
ErrorFrame(error) == Frame("", NoKey, NoId, "", NoData, NoCorr, error)

(* The responder gives up the connection when a frame does not decrypt *)
DecryptionFailedFatal(s) ==
  [sessions EXCEPT ![s].out = Tail(@),
                   ![s].in = Append(@, ErrorFrame("decryption_failed")),
                   ![s].peerKey = NoKey,
                   ![s].closed = TRUE]

(* The else branch of payload !== null: the error is written, and the *)
(* variables of the connection stay as they are                       *)
DecryptionFailed(s) ==
  [sessions EXCEPT ![s].out = Tail(@),
                   ![s].in = Append(@, ErrorFrame("decryption_failed"))]

(* An ack that does not say which message it is for *)
AckAnonymous(correlationId) == Frame("ack", NoKey, NoId, "", NoData, NoCorr, "")

(* { type: 'ack', correlationId: msg.correlationId } *)
Ack(correlationId) == Frame("ack", NoKey, NoId, "", NoData, correlationId, "")

(* socket.on('data') of _handlePeerConnection, for one line *)
PeerReceive(s) ==
  /\ sessions[s].out # <<>>
  /\ LET msg == Head(sessions[s].out)
         q == sessions[s].peer
         keyPair == generateKeyPair(s, "responder")
         payload == decrypt(msg.data, sessions[s].peerKey)
     IN  CASE msg.type = "handshake" ->
                /\ sessions' =
                     [sessions EXCEPT
                        ![s].out = Tail(@),
                        ![s].peerKey = deriveKey(keyPair, msg.key),
                        ![s].peerId = msg.from,
                        ![s].in = Append(@, Frame("handshake_ack", keyPair,
                                                  NoId, "", NoData, NoCorr,
                                                  ""))]
                /\ UNCHANGED <<dispatched, requests>>
           [] msg.type = "message" /\ sessions[s].peerKey # NoKey ->
                IF payload # Null
                  THEN /\ dispatched' =
                            Append(dispatched,
                                   [at |-> q, from |-> sessions[s].peerId,
                                    type |-> msg.messageType,
                                    payload |-> payload,
                                    correlationId |-> msg.correlationId,
                                    session |-> s])
                       /\ requests' =
                            ResolveRequests(q, msg.messageType, payload,
                                            msg.correlationId,
                                            Len(dispatched) + 1)
                       /\ sessions' =
                            [sessions EXCEPT
                               ![s].out = Tail(@),
                               ![s].in = Append(@, Ack(msg.correlationId))]
                  ELSE /\ sessions' = DecryptionFailed(s)
                       /\ UNCHANGED <<dispatched, requests>>
           [] OTHER ->
                /\ sessions' = [sessions EXCEPT ![s].out = Tail(@)]
                /\ UNCHANGED <<dispatched, requests>>
  /\ UNCHANGED labVars
  /\ UNCHANGED broadcasts
  /\ UNCHANGED <<procUp, agentId, agentCache, responded>>
  /\ UNCHANGED <<hubVars, connVars>>

(* socket.on('data') of _sendEncrypted, for one line; once the call has *)
(* settled the socket is ended and a write to it puts nothing on the    *)
(* wire                                                                 *)
SenderReceive(s) ==
  /\ sessions[s].in # <<>>
  /\ LET msg == Head(sessions[s].in)
         keyPair == generateKeyPair(s, "initiator")
         sessionKey == deriveKey(keyPair, msg.key)
         settled == sessions[s].state \in {"resolved", "rejected"}
     IN  CASE msg.type = "handshake_ack" ->
                /\ sessions' =
                     [sessions EXCEPT
                        ![s].in = Tail(@),
                        ![s].sessionKey = sessionKey,
                        ![s].out =
                          IF settled
                            THEN @
                            ELSE Append(@, Frame("message", NoKey, NoId,
                                                 sessions[s].type,
                                                 encrypt(sessions[s].payload,
                                                         sessionKey),
                                                 sessions[s].correlationId,
                                                 ""))]
                /\ UNCHANGED <<requests, broadcasts>>
           [] msg.type = "ack" ->
                /\ sessions' =
                     [sessions EXCEPT
                        ![s].in = Tail(@),
                        ![s].state = IF settled THEN @ ELSE "resolved"]
                /\ broadcasts' = IF settled THEN broadcasts
                                            ELSE SettleBroadcast(s, TRUE, "")
                /\ UNCHANGED requests
           [] msg.type \notin {"handshake_ack", "ack"} /\ msg.error # "" ->
                /\ sessions' =
                     [sessions EXCEPT
                        ![s].in = Tail(@),
                        ![s].state = IF settled THEN @ ELSE "rejected",
                        ![s].error = IF settled THEN @ ELSE msg.error]
                /\ requests' = IF settled THEN requests
                                          ELSE RejectRequestOf(s, msg.error)
                /\ broadcasts' = IF settled
                                   THEN broadcasts
                                   ELSE SettleBroadcast(s, FALSE, msg.error)
           [] OTHER ->
                /\ sessions' = [sessions EXCEPT ![s].in = Tail(@)]
                /\ UNCHANGED <<requests, broadcasts>>
  /\ UNCHANGED labVars
  /\ UNCHANGED <<procUp, agentId, agentCache, dispatched, responded>>
  /\ UNCHANGED <<hubVars, connVars>>

----------------------------------------------------------------------------
(* SpecMsg: agent A starts, then B and C; A sends and requests, whoever is *)
(* dispatched a message answers; no time passes, so a cached address      *)
(* stays fresh                                                            *)

SendPayloads == {Obj("job"), Str("7")}

RequestPayloads == {Obj("job")}

RespondPayloads == {Obj("done"), Str("7")}

MsgNext ==
  \/ \E p \in Procs : (p # "A" => procUp["A"]) /\ AgentUp(p, Len(agents) + 1)
  \/ \E p \in Procs \ {"A"} : AgentDown(p)
  \/ discover("A")
  \/ \E to \in PeerIds, payload \in SendPayloads : send("A", to, "task", payload)
  \/ \E to \in PeerIds, payload \in RequestPayloads :
       request("A", to, "task", payload)
  \/ \E k \in DOMAIN requests : RequestTimedOut(k)
  \/ \E p \in Procs, e \in DOMAIN dispatched, payload \in RespondPayloads :
       respond(p, e, payload)
  \/ \E s \in DOMAIN sessions : PeerConnect(s)
  \/ \E s \in DOMAIN sessions : PeerReceive(s)
  \/ \E s \in DOMAIN sessions : SenderReceive(s)

SpecMsg == HubInit /\ [][MsgNext]_vars

(* The 'message' events dispatched for connection s *)
EventsOf(s) == {e \in DOMAIN dispatched : dispatched[e].session = s}

(* C1: for every send(to, type, payload) that resolved, the agent         *)
(* registered under id to has dispatched exactly one 'message' event for  *)
(* it, with the same type and a payload equal to the sent value, whatever *)
(* the sender's cache held for to.                                        *)
C1_SendDispatchedOnceAtTo ==
  \A s \in DOMAIN sessions :
    sessions[s].kind = "send" /\ sessions[s].state = "resolved" =>
      /\ Cardinality(EventsOf(s)) = 1
      /\ \A e \in EventsOf(s) :
           /\ agentId[dispatched[e].at] = sessions[s].to
           /\ dispatched[e].type = sessions[s].type
           /\ dispatched[e].payload = sessions[s].payload

(* C2: for every request(to, type, payload) that resolved, the value is   *)
(* the payload of a respond() call made by agent to for the request's     *)
(* correlation id; no message of another agent resolves it, and no two    *)
(* requests are resolved by the same incoming message.                    *)
C2_ResolvedByRespondOfTo ==
  /\ \A k \in DOMAIN requests :
       requests[k].state = "resolved" =>
         /\ \E c \in DOMAIN responded :
              /\ responded[c].by = requests[k].to
              /\ responded[c].correlationId = requests[k].correlationId
              /\ responded[c].payload = requests[k].value
         /\ dispatched[requests[k].event].from = requests[k].to
  /\ \A k, l \in DOMAIN requests :
       /\ k # l
       /\ requests[k].state = "resolved"
       /\ requests[l].state = "resolved"
       => requests[k].event # requests[l].event

(* C14: a request addressed to an agent whose process is not running    *)
(* fails with the timeout error of its timer, and so only once the       *)
(* timeout has elapsed: no other error fails it earlier.                 *)
C14_NotRunningFailsByTimeout ==
  \A k \in DOMAIN requests :
    /\ requests[k].state = "rejected"
    /\ ~requests[k].toUp
    /\ ~Running(requests[k].to)
    => requests[k].error = "Request timeout"

MessageTypes == {"task", "task:response"}

----------------------------------------------------------------------------
(* Broadcasts.  A process may end without disconnect(): its record stays   *)
(* online at the hub and nothing listens at its address.  A byte of a      *)
(* ciphertext may change on the way.                                       *)

(* The process ends: no disconnect(), the sockets it held are gone *)
AgentCrash(p) ==
  /\ procUp[p]
  /\ procUp' = [procUp EXCEPT ![p] = FALSE]
  /\ UNCHANGED labVars
  /\ UNCHANGED <<agentId, agentCache, sessions, requests, dispatched,
                 responded, broadcasts>>
  /\ UNCHANGED <<hubVars, connVars>>

(* The data of the message frame at the head of the line to the responder *)
(* no longer verifies under any key                                       *)
Tamper(s) ==
  /\ sessions[s].out # <<>>
  /\ Head(sessions[s].out).type = "message"
  /\ Head(sessions[s].out).data.key # NoKey
  /\ sessions' = [sessions EXCEPT ![s].out[1].data.key = NoKey]
  /\ UNCHANGED labVars
  /\ UNCHANGED <<procUp, agentId, agentCache, requests, dispatched,
                 responded, broadcasts>>
  /\ UNCHANGED <<hubVars, connVars>>

BroadcastSessions == {1, 2, 3}

MaxBroadcasts == 2

(* broadcast(type, payload): discover with status 'online', then one     *)
(* _sendEncrypted to the address of every agent found, each with its own *)
(* correlation id                                                        *)
broadcast(p, type, payload) ==
  /\ procUp[p]
  /\ Len(broadcasts) < MaxBroadcasts
  /\ \E o \in handleDiscover(DiscoverRequest(p, "online")) :
       LET found == o.response.agents
           first == Len(sessions)
       IN  /\ first + Len(found) \in BroadcastSessions \cup {0}
           /\ agentCache' = [agentCache EXCEPT ![p] = Cached(p, found)]
           /\ sessions' =
                sessions \o
                  [i \in DOMAIN found |->
                     Session(p, "broadcast", found[i].id,
                             [ok |-> TRUE, address |-> found[i].address,
                              error |-> "", asked |-> <<>>],
                             type, payload, first + i)]
           /\ broadcasts' =
                Append(broadcasts,
                       [by |-> p, total |-> Len(found), delivered |-> 0,
                        failed |-> 0, errors |-> <<>>,
                        asked |-> <<DiscoverRequest(p, "online")>>,
                        sessions |-> {first + i : i \in DOMAIN found},
                        state |-> IF found = <<>> THEN "resolved"
                                                  ELSE "pending"])
  /\ UNCHANGED labVars
  /\ UNCHANGED <<procUp, agentId, requests, dispatched, responded>>
  /\ UNCHANGED <<hubVars, connVars>>

(* SpecBroadcast: A, B and C start, B and C may end without notice, and A *)
(* broadcasts to whoever the hub holds online                             *)
BroadcastNext ==
  \/ \E p \in Procs : (p # "A" => procUp["A"]) /\ AgentUp(p, Len(agents) + 1)
  \/ \E p \in Procs \ {"A"} : AgentCrash(p)
  \/ broadcast("A", "task", Obj("job"))
  \/ \E s \in DOMAIN sessions : PeerConnect(s)
  \/ \E s \in DOMAIN sessions : Tamper(s)
  \/ \E s \in DOMAIN sessions :
       sessions[s].peer \in Procs /\ procUp[sessions[s].peer] /\ PeerReceive(s)
  \/ \E s \in DOMAIN sessions : SenderReceive(s)

SpecBroadcast == HubInit /\ [][BroadcastNext]_vars

(* The entries of errors a broadcast holds for the peer of connection s *)
ErrorsFor(b, s) ==
  {k \in DOMAIN broadcasts[b].errors :
     broadcasts[b].errors[k].agent = sessions[s].to}

(* C13: broadcast never rejects because a send to a peer failed; it       *)
(* resolves with total the number of peers discover returned, delivered   *)
(* + failed = total, and in errors exactly one entry for each peer whose  *)
(* send failed, carrying that send's error, and none for a delivered one. *)
C13_BroadcastAggregates ==
  \A b \in DOMAIN broadcasts :
    /\ broadcasts[b].state # "rejected"
    /\ broadcasts[b].state = "resolved" =>
         /\ broadcasts[b].total = Cardinality(broadcasts[b].sessions)
         /\ broadcasts[b].delivered + broadcasts[b].failed
              = broadcasts[b].total
         /\ Len(broadcasts[b].errors) = broadcasts[b].failed
         /\ \A s \in broadcasts[b].sessions :
              /\ sessions[s].state = "rejected" =>
                   /\ Cardinality(ErrorsFor(b, s)) = 1
                   /\ \A k \in ErrorsFor(b, s) :
                        broadcasts[b].errors[k].error = sessions[s].error
              /\ sessions[s].state = "resolved" => ErrorsFor(b, s) = {}

C13_Witness ==
  \E b \in DOMAIN broadcasts :
    /\ broadcasts[b].state = "resolved"
    /\ broadcasts[b].delivered > 0
    /\ broadcasts[b].failed > 0

----------------------------------------------------------------------------
(* Peers that are not agents.  Whoever reaches the port of an agent may    *)
(* connect and write lines of its own: a message before any handshake, a   *)
(* message that does not decrypt, a message after one that failed.         *)

(* The lines a client may write on connection s: a handshake, a message *)
(* encrypted under the key the handshake gives, and a message that does *)
(* not verify under it                                                  *)
RawLine(s, kind) ==
  LET key == deriveKey(generateKeyPair(s, "initiator"),
                       generateKeyPair(s, "responder"))
  IN  CASE kind = "handshake" ->
             Frame("handshake", generateKeyPair(s, "initiator"), 3, "",
                   NoData, NoCorr, "")
        [] kind = "message" ->
             Frame("message", NoKey, NoId, "task", encrypt(Obj("job"), key),
                   s, "")
        [] kind = "garbled" ->
             Frame("message", NoKey, NoId, "task",
                   [encrypt(Obj("job"), key) EXCEPT !.key = NoKey], s, "")

MaxLines == 3

(* What a client writes: up to MaxLines lines, one handshake at most *)
RawScripts ==
  {w \in UNION {[1..n -> {"handshake", "message", "garbled"}] :
                  n \in 1..MaxLines} :
     Cardinality({i \in DOMAIN w : w[i] = "handshake"}) <= 1}

(* A client connects to the server of process q and writes its lines *)
RawConnect(q, script) ==
  /\ procUp[q]
  /\ Len(sessions) + 1 \in SessionIds
  /\ LET s == Len(sessions) + 1
         opened == Session("", "raw", agentId[q],
                           [ok |-> TRUE, address |-> Addr(q), error |-> "",
                            asked |-> <<>>],
                           "", Null, NoCorr)
     IN  sessions' =
           Append(sessions,
                  [opened EXCEPT
                     !.state = "open",
                     !.peer = q,
                     !.out = [i \in DOMAIN script |-> RawLine(s, script[i])]])
  /\ UNCHANGED labVars
  /\ UNCHANGED <<procUp, agentId, agentCache, requests, dispatched,
                 responded, broadcasts>>
  /\ UNCHANGED <<hubVars, connVars>>

(* socket.on('timeout') of _handlePeerConnection: the responder ends a *)
(* connection that stayed idle                                         *)
PeerTimeout(s) ==
  /\ sessions[s].peer \in Procs
  /\ sessions[s].out = <<>>
  /\ ~sessions[s].closed
  /\ sessions' = [sessions EXCEPT ![s].closed = TRUE]
  /\ UNCHANGED labVars
  /\ UNCHANGED <<procUp, agentId, agentCache, requests, dispatched,
                 responded, broadcasts>>
  /\ UNCHANGED <<hubVars, connVars>>

(* SpecPeer: A and B run; A sends to B, clients that are not agents write *)
(* to B, and a ciphertext may change on the way                           *)
PeerNext ==
  \/ \E p \in {"A", "B"} : (p # "A" => procUp["A"]) /\ AgentUp(p, Len(agents) + 1)
  \/ \E payload \in SendPayloads :
       agentId["B"] # NoId /\ send("A", agentId["B"], "task", payload)
  \/ \E script \in RawScripts : RawConnect("B", script)
  \/ \E s \in DOMAIN sessions : Tamper(s)
  \/ \E s \in DOMAIN sessions : PeerConnect(s)
  \/ \E s \in DOMAIN sessions : ~sessions[s].closed /\ PeerReceive(s)
  \/ \E s \in DOMAIN sessions : SenderReceive(s)
  \/ \E s \in DOMAIN sessions : PeerTimeout(s)

SpecPeer == HubInit /\ [][PeerNext]_vars

(* The responder takes the line at the head of connection s in this step *)
Takes(s) ==
  /\ sessions[s].out # <<>>
  /\ sessions'[s].out = Tail(sessions[s].out)

(* The line at the head of connection s is a message whose data does not *)
(* decrypt under the key of the session                                  *)
FailsToDecrypt(s) ==
  /\ sessions[s].out # <<>>
  /\ Head(sessions[s].out).type = "message"
  /\ sessions[s].peerKey # NoKey
  /\ decrypt(Head(sessions[s].out).data, sessions[s].peerKey) = Null

(* C15: when the data of a message frame fails to decrypt under the      *)
(* session key, the responder dispatches no 'message' event and sends no *)
(* ack but {error: 'decryption_failed'}, and the session stays open and  *)
(* keyed, so that later frames on it are processed; the initiator's send *)
(* rejects on that error.                                                *)
C15_DecryptionFailureNotFatal ==
  [][\A s \in DOMAIN sessions :
       /\ FailsToDecrypt(s) /\ Takes(s) =>
            /\ dispatched' = dispatched
            /\ sessions'[s].in =
                 Append(sessions[s].in, ErrorFrame("decryption_failed"))
            /\ sessions'[s].peerKey = sessions[s].peerKey
            /\ ~sessions'[s].closed
       /\ /\ sessions[s].kind = "send"
          /\ sessions[s].in # <<>>
          /\ Head(sessions[s].in).error = "decryption_failed"
          /\ sessions'[s].in = Tail(sessions[s].in)
          => /\ sessions'[s].state = "rejected"
             /\ sessions'[s].error = "decryption_failed"]_vars

(* A send was rejected for the error, and on a connection the error was *)
(* followed by the ack of a later frame                                 *)
C15_Witness ==
  /\ \E s \in DOMAIN sessions :
       /\ sessions[s].kind = "send"
       /\ sessions[s].state = "rejected"
       /\ sessions[s].error = "decryption_failed"
  /\ \E s \in DOMAIN sessions, i, j \in 1..MaxLines :
       /\ i < j
       /\ j <= Len(sessions[s].in)
       /\ sessions[s].in[i].error = "decryption_failed"
       /\ sessions[s].in[j].type = "ack"

(* C16: a message frame received on a session on which no handshake has *)
(* completed is never dispatched to handlers, and the responder closes  *)
(* the session on receiving it.                                         *)
C16_MessageBeforeHandshakeCloses ==
  [][\A s \in DOMAIN sessions :
       /\ sessions[s].out # <<>>
       /\ Head(sessions[s].out).type = "message"
       /\ sessions[s].peerKey = NoKey
       /\ Takes(s)
       => /\ dispatched' = dispatched
          /\ sessions'[s].closed]_vars

----------------------------------------------------------------------------
(* SpecCrypto: Crypto.encrypt of a payload under a key, then              *)
(* Crypto.decrypt of the result under that key or another.                *)

CryptoPayloads ==
  {Obj("job"), Obj("done"), Num("7"), Null,
   Str("hello"), Str(""), Str("7"), Str("null")}

CryptoKeys ==
  {deriveKey(generateKeyPair(s, "initiator"), generateKeyPair(s, "responder")) :
     s \in {1, 2, 3}}

(* decrypt has not been called *)
NotDecrypted == [key |-> NoKey, value |-> Null]

CryptoInit ==
  /\ ProgramInit({TRUE}, {FALSE})
  /\ plaintext \in CryptoPayloads
  /\ sealKey \in CryptoKeys
  /\ sealed = NoData
  /\ unsealed = NotDecrypted
  /\ frames = <<>>
  /\ wire = <<>>
  /\ buffer = <<>>
  /\ lines = <<>>

Encrypt ==
  /\ sealed = NoData
  /\ sealed' = encrypt(plaintext, sealKey)
  /\ UNCHANGED <<plaintext, sealKey, unsealed, frames, wire, buffer, lines>>
  /\ UNCHANGED <<hubVars, msgVars, connVars>>

Decrypt(key) ==
  /\ sealed # NoData
  /\ unsealed = NotDecrypted
  /\ unsealed' = [key |-> key, value |-> decrypt(sealed, key)]
  /\ UNCHANGED <<plaintext, sealKey, sealed, frames, wire, buffer, lines>>
  /\ UNCHANGED <<hubVars, msgVars, connVars>>

CryptoNext == Encrypt \/ \E key \in CryptoKeys : Decrypt(key)

SpecCrypto == CryptoInit /\ [][CryptoNext]_vars

(* C18: decrypt(encrypt(m, k), k) is m for every key k and every payload *)
(* m, strings that are JSON text included, and decrypt under another key *)
(* gives the failure value.                                              *)
C18_DecryptInvertsEncrypt ==
  unsealed # NotDecrypted =>
    IF unsealed.key = sealKey THEN unsealed.value = plaintext
                              ELSE unsealed.value = Null

----------------------------------------------------------------------------
(* SpecFraming: the lines of a connection.  The sender writes each frame  *)
(* as JSON text and a newline, in UTF-8; the bytes arrive in chunks cut   *)
(* anywhere; the data handler appends chunk.toString() to buffer and      *)
(* takes the lines buffer holds.  A character is "a" (one byte), "e'"     *)
(* (two bytes, C3 A9), "nl" (the newline) or "FFFD" (the replacement      *)
(* character).                                                            *)

RECURSIVE Utf8(_)
(* The UTF-8 bytes of a text *)
Utf8(text) ==
  IF text = <<>>
    THEN <<>>
    ELSE (IF Head(text) = "e'" THEN <<"C3", "A9">> ELSE <<Head(text)>>)
           \o Utf8(Tail(text))

RECURSIVE toString(_)
(* chunk.toString(): a sequence that is not a whole character becomes the *)
(* replacement character                                                  *)
toString(chunk) ==
  IF chunk = <<>>
    THEN <<>>
    ELSE IF Len(chunk) >= 2 /\ chunk[1] = "C3" /\ chunk[2] = "A9"
      THEN <<"e'">> \o toString(Tail(Tail(chunk)))
      ELSE (IF Head(chunk) \in {"C3", "A9"} THEN <<"FFFD">>
                                            ELSE <<Head(chunk)>>)
             \o toString(Tail(chunk))

RECURSIVE Written(_)
(* What socket.write puts on the wire for the frames, one after another *)
Written(sent) ==
  IF sent = <<>> THEN <<>>
                 ELSE Utf8(Head(sent) \o <<"nl">>) \o Written(Tail(sent))

(* buffer.indexOf('\n') *)
indexOf(text) ==
  CHOOSE i \in DOMAIN text :
    text[i] = "nl" /\ \A j \in 1..(i - 1) : text[j] # "nl"

RECURSIVE TakeLines(_, _)
(* The while loop of the data handler: the buffer and the lines taken *)
(* once buffer holds no newline                                       *)
TakeLines(text, taken) ==
  IF \A i \in DOMAIN text : text[i] # "nl"
    THEN [buffer |-> text, lines |-> taken]
    ELSE TakeLines(SubSeq(text, indexOf(text) + 1, Len(text)),
                   Append(taken, SubSeq(text, 1, indexOf(text) - 1)))

FrameTexts == {<<"a">>, <<"e'">>, <<"a", "e'">>, <<"e'", "a">>}

MaxFrames == 2

FramingInit ==
  /\ ProgramInit({TRUE}, {FALSE})
  /\ plaintext = Null
  /\ sealKey = NoKey
  /\ sealed = NoData
  /\ unsealed = [key |-> NoKey, value |-> Null]
  /\ frames \in UNION {[1..n -> FrameTexts] : n \in 1..MaxFrames}
  /\ wire = Written(frames)
  /\ buffer = <<>>
  /\ lines = <<>>

(* socket.on('data') with a chunk of the first n bytes on the wire *)
Data(n) ==
  /\ n \in 1..Len(wire)
  /\ LET chunk == SubSeq(wire, 1, n)
         after == TakeLines(buffer \o toString(chunk), lines)
     IN  /\ wire' = SubSeq(wire, n + 1, Len(wire))
         /\ buffer' = after.buffer
         /\ lines' = after.lines
  /\ UNCHANGED <<plaintext, sealKey, sealed, unsealed, frames>>
  /\ UNCHANGED <<hubVars, msgVars, connVars>>

FramingNext == \E n \in 1..Len(wire) : Data(n)

SpecFraming == FramingInit /\ [][FramingNext]_vars

(* C17: for every sequence of frames and every way of cutting the bytes  *)
(* of their newline-terminated UTF-8 encodings into chunks, a cut inside *)
(* a multi-byte character included, the receiver takes exactly those     *)
(* frames, in order, with nothing left over or lost.                     *)
C17_FramingRoundTrip ==
  wire = <<>> => lines = frames /\ buffer = <<>>

----------------------------------------------------------------------------
(* The agent: the control connection of agent A.  The hub and the network  *)
(* are the environment: a socket opens, fails or closes, and a request is  *)
(* answered, refused or left without answer.  Events fall on multiples of  *)
(* the reconnection delay.                                                 *)

ReconnectDelay == 5

HubRequestTimeout == 10

heartbeatInterval == 30

NoReply == Response("", "", NoId, <<>>)

(* _hubRequest: the entry of this.pendingRequests and, with it, where the *)
(* request is: sent on a socket, handled by the hub, answered with reply. *)
(* this.ws.send throws on a socket that is still connecting: the promise  *)
(* is rejected by the exception, after the entry was put in the table     *)
HubRequest(correlationId, action, id, attempt, socket, sent) ==
  [correlationId |-> correlationId, action |-> action, id |-> id,
   attempt |-> attempt, socket |-> socket, sent |-> sent,
   deadline |-> now + HubRequestTimeout, handled |-> FALSE,
   reply |-> NoReply, limit |-> 0,
   threw |-> ~sent /\ ws[socket].state = "connecting"]

(* _scheduleReconnect: the timer the call leaves *)
scheduleReconnect(timer) ==
  IF timer # NoTimer THEN timer ELSE now + ReconnectDelay

(* The attempt owed once the control socket closed with autoReconnect on, *)
(* or an attempt to reconnect failed: at the latest when the delay has    *)
(* passed                                                                 *)
Owe(due) == IF due # NoTimer THEN due ELSE now + ReconnectDelay

(* _connectToHub: a socket is made and becomes this.ws; awaited tells who *)
(* awaits the promise, connect() or the callback of the reconnect timer,  *)
(* and id will hold the id its open handler is given                      *)
connectToHub(awaited) ==
  Append(ws, [state |-> "connecting", promise |-> "pending",
              awaited |-> awaited, id |-> NoId])

(* connect() *)
connect ==
  /\ ~crashed
  /\ ws = <<>>
  /\ procUp' = [procUp EXCEPT !["A"] = TRUE]
  /\ ws' = connectToHub("connect")
  /\ UNCHANGED disconnectPc
  /\ UNCHANGED labVars
  /\ UNCHANGED broadcasts
  /\ UNCHANGED <<agentId, agentCache, sessions, requests, dispatched,
                 responded>>
  /\ UNCHANGED <<autoReconnect, connected, errorListener, crashed,
                 pendingRequests, reconnectTimer, heartbeatTimer, emitted,
                 owed>>
  /\ UNCHANGED hubVars

(* reject(err) of the promise of socket k: the catch of the timer's   *)
(* callback schedules a reconnection; a settled promise stays settled *)
RejectedTimer(k, timer) ==
  IF ws[k].promise = "pending" /\ ws[k].awaited = "timer"
    THEN scheduleReconnect(timer)
    ELSE timer

RejectedOwed(k, isConnected) ==
  IF ws[k].promise = "pending" /\ ws[k].awaited = "timer" /\ ~isConnected
    THEN Owe(owed)
    ELSE owed

(* ws.on('open'): the register request is made on this.ws; send throws *)
(* while this.ws is connecting and drops the data once it has closed   *)
SocketOpen(k, correlationId) ==
  /\ ~crashed
  /\ ws[k].state = "connecting"
  /\ \A r \in pendingRequests : r.correlationId # correlationId
  /\ LET thisWs == ws[Len(ws)]
         threw == Len(ws) # k /\ thisWs.state = "connecting"
     IN  /\ pendingRequests' =
              pendingRequests \cup
                {HubRequest(correlationId, "register", NoId, k, Len(ws),
                            Len(ws) = k \/ thisWs.state = "open")}
         /\ ws' = [ws EXCEPT ![k].state = "open",
                             ![k].promise = IF threw /\ @ = "pending"
                                              THEN "rejected" ELSE @]
         /\ reconnectTimer' = IF threw THEN RejectedTimer(k, reconnectTimer)
                                       ELSE reconnectTimer
         /\ owed' = IF threw THEN RejectedOwed(k, connected) ELSE owed
  /\ UNCHANGED disconnectPc
  /\ UNCHANGED labVars
  /\ UNCHANGED <<autoReconnect, connected, errorListener, crashed,
                 heartbeatTimer, emitted>>
  /\ UNCHANGED <<hubVars, msgVars>>

(* ws.on('error') and the ws.on('close') that follows it.  emit('error')   *)
(* with no listener throws: neither reject nor the close handler runs and  *)
(* the exception ends the process.                                         *)
SocketError(k) ==
  /\ ~crashed
  /\ ws[k].state \in {"connecting", "open"}
  /\ IF ~errorListener
       THEN /\ crashed' = TRUE
            /\ ws' = [ws EXCEPT ![k].state = "closed"]
            /\ owed' = IF autoReconnect /\ ws[k].state = "open"
                         THEN Owe(owed)
                         ELSE RejectedOwed(k, connected)
            /\ UNCHANGED <<connected, emitted, reconnectTimer>>
       ELSE LET closeTimer == IF autoReconnect
                                THEN scheduleReconnect(reconnectTimer)
                                ELSE reconnectTimer
            IN  /\ ws' = [ws EXCEPT
                            ![k].state = "closed",
                            ![k].promise = IF ~connected /\ @ = "pending"
                                             THEN "rejected" ELSE @]
                /\ connected' = FALSE
                /\ emitted' = "disconnected"
                /\ reconnectTimer' = IF ~connected
                                       THEN RejectedTimer(k, closeTimer)
                                       ELSE closeTimer
                /\ owed' = IF autoReconnect /\ ws[k].state = "open"
                             THEN Owe(owed)
                             ELSE RejectedOwed(k, connected)
                /\ UNCHANGED crashed
  /\ UNCHANGED disconnectPc
  /\ UNCHANGED labVars
  /\ UNCHANGED <<autoReconnect, errorListener, pendingRequests,
                 heartbeatTimer>>
  /\ UNCHANGED <<hubVars, msgVars>>

(* ws.on('close') of a socket that was open *)
SocketClose(k) ==
  /\ ~crashed
  /\ ws[k].state = "open"
  /\ ws' = [ws EXCEPT ![k].state = "closed"]
  /\ connected' = FALSE
  /\ emitted' = "disconnected"
  /\ reconnectTimer' = IF autoReconnect THEN scheduleReconnect(reconnectTimer)
                                        ELSE reconnectTimer
  /\ owed' = IF autoReconnect THEN Owe(owed) ELSE owed
  /\ UNCHANGED disconnectPc
  /\ UNCHANGED labVars
  /\ UNCHANGED <<autoReconnect, errorListener, crashed, pendingRequests,
                 heartbeatTimer>>
  /\ UNCHANGED <<hubVars, msgVars>>

(* The hub's answer to the register request r reaches _handleHubMessage, *)
(* and the open handler that awaits it goes on                           *)
RegisterAnswered(r, ok, id) ==
  /\ ~crashed
  /\ r.action = "register"
  /\ r.sent
  /\ ws[r.socket].state = "open"
  /\ pendingRequests' = pendingRequests \ {r}
  /\ IF ok
       THEN /\ \E o \in handleRegister(Request("register", NoId, Addr("A"),
                                               {}, "", 0, 0),
                                       Addr("A").host, id) :
                 /\ ~o.threw
                 /\ agents' = o.table
                 /\ agentId' = [agentId EXCEPT !["A"] = o.response.id]
            /\ connected' = TRUE
            /\ heartbeatTimer' = now + heartbeatInterval
            /\ emitted' = "connected"
            /\ ws' = [ws EXCEPT ![r.attempt].promise =
                                  IF @ = "pending" THEN "resolved" ELSE @,
                                ![r.attempt].id = id]
            /\ owed' = NoTimer
            /\ UNCHANGED reconnectTimer
       ELSE /\ ws' = [ws EXCEPT ![r.attempt].promise =
                                  IF @ = "pending" THEN "rejected" ELSE @]
            /\ reconnectTimer' = RejectedTimer(r.attempt, reconnectTimer)
            /\ owed' = RejectedOwed(r.attempt, connected)
            /\ UNCHANGED <<agents, agentId, connected, heartbeatTimer,
                           emitted>>
  /\ UNCHANGED disconnectPc
  /\ UNCHANGED labVars
  /\ UNCHANGED broadcasts
  /\ UNCHANGED <<autoReconnect, errorListener, crashed>>
  /\ UNCHANGED <<procUp, agentCache, sessions, requests, dispatched,
                 responded>>
  /\ UNCHANGED <<wsState, wsAgentId, clients, inflight, now, lastSweep,
                 cleanupPc, hubOp, issued, regOver>>

(* The timer of _hubRequest: the open handler that awaits a register *)
(* rejects its promise; the heartbeat callback swallows the error    *)
HubRequestTimedOut(r) ==
  /\ ~crashed
  /\ r.deadline <= now
  /\ pendingRequests' = pendingRequests \ {r}
  /\ IF r.action = "register"
       THEN /\ ws' = [ws EXCEPT ![r.attempt].promise =
                                  IF @ = "pending" THEN "rejected" ELSE @]
            /\ reconnectTimer' = RejectedTimer(r.attempt, reconnectTimer)
            /\ owed' = RejectedOwed(r.attempt, connected)
       ELSE UNCHANGED <<ws, reconnectTimer, owed>>
  /\ UNCHANGED disconnectPc
  /\ UNCHANGED labVars
  /\ UNCHANGED <<autoReconnect, connected, errorListener, crashed,
                 heartbeatTimer, emitted>>
  /\ UNCHANGED <<hubVars, msgVars>>

MaxSockets == 3

(* The callback of the reconnect timer *)
ReconnectFires ==
  /\ ~crashed
  /\ reconnectTimer # NoTimer
  /\ reconnectTimer <= now
  /\ Len(ws) < MaxSockets
  /\ reconnectTimer' = NoTimer
  /\ ws' = connectToHub("timer")
  /\ owed' = NoTimer
  /\ UNCHANGED disconnectPc
  /\ UNCHANGED labVars
  /\ UNCHANGED <<autoReconnect, connected, errorListener, crashed,
                 pendingRequests, heartbeatTimer, emitted>>
  /\ UNCHANGED <<hubVars, msgVars>>

(* Time passes once the timers that are due have fired; a process that *)
(* has ended fires none                                                *)
Elapse(maxTicks) ==
  /\ now < maxTicks * ReconnectDelay
  /\ crashed \/ /\ reconnectTimer = NoTimer \/ reconnectTimer > now
                /\ \A r \in pendingRequests : r.deadline > now
  /\ now' = now + ReconnectDelay
  /\ UNCHANGED labVars
  /\ UNCHANGED <<agents, wsState, wsAgentId, clients, inflight, lastSweep,
                 cleanupPc, hubOp, issued, regOver>>
  /\ UNCHANGED <<msgVars, connVars>>

----------------------------------------------------------------------------
(* SpecConn: agent A connects, and the hub and the network do as they may *)

ConnTicks == 6

ConnInit == InitWith(BOOLEAN, BOOLEAN)

ConnNext ==
  \/ connect
  \/ \E k \in DOMAIN ws : SocketOpen(k, k)
  \/ \E k \in DOMAIN ws : SocketError(k)
  \/ \E k \in DOMAIN ws : SocketClose(k)
  \/ \E r \in pendingRequests, ok \in BOOLEAN :
       RegisterAnswered(r, ok, Len(agents) + 1)
  \/ \E r \in pendingRequests : HubRequestTimedOut(r)
  \/ ReconnectFires
  \/ Elapse(ConnTicks)

SpecConn == ConnInit /\ [][ConnNext]_vars

(* C10: after the control socket closed with autoReconnect on, and after  *)
(* every failed attempt to reconnect, a new attempt starts when the 5 s   *)
(* have passed, until a registration succeeds.                            *)
C10_ReconnectsAfterDelay == owed # NoTimer => now <= owed

(* C12: when the control socket closes, every hub request that is pending *)
(* is failed and removed from this.pendingRequests: none stays pending on *)
(* a closed socket until its own timeout.                                 *)
C12_NoPendingOnClosedSocket ==
  ~crashed =>
    \A r \in pendingRequests : r.sent => ws[r.socket].state # "closed"

----------------------------------------------------------------------------
(* The agent and the hub together: agent A's socket k is the hub's socket  *)
(* k, and a request of this.pendingRequests reaches the hub's message      *)
(* handler and is answered by it.                                          *)

(* The callback of the heartbeat timer: the request carries this.id and *)
(* goes out on this.ws                                                  *)
HeartbeatFires(correlationId) ==
  /\ ~crashed
  /\ heartbeatTimer # NoTimer
  /\ heartbeatTimer <= now
  /\ \A r \in pendingRequests : r.correlationId # correlationId
  /\ pendingRequests' =
       pendingRequests \cup
         {HubRequest(correlationId, "heartbeat", agentId["A"], 0, Len(ws),
                     ws[Len(ws)].state = "open")}
  /\ heartbeatTimer' = now + heartbeatInterval
  /\ UNCHANGED disconnectPc
  /\ UNCHANGED labVars
  /\ UNCHANGED <<autoReconnect, connected, errorListener, crashed, ws,
                 reconnectTimer, emitted, owed>>
  /\ UNCHANGED <<hubVars, msgVars>>

(* The request as the hub parses it *)
RequestOf(r) ==
  Request(r.action, r.id,
          IF r.action = "register" THEN Addr("A") ELSE NoAddress,
          {}, "", r.limit, 0)

(* The hub's ws.on('message') for the request r *)
HubReceives(r, id) ==
  /\ r.sent
  /\ ~r.handled
  /\ r.socket \in Socks
  /\ WsMessageStep(r.socket, RequestOf(r), id)
  /\ pendingRequests' =
       (pendingRequests \ {r}) \cup {[r EXCEPT !.handled = TRUE]}
  /\ UNCHANGED disconnectPc
  /\ UNCHANGED labVars
  /\ UNCHANGED <<autoReconnect, connected, errorListener, crashed, ws,
                 reconnectTimer, heartbeatTimer, emitted, owed>>
  /\ UNCHANGED msgVars

(* The hub's ws.send of the response: it carries the correlation id of the *)
(* request unless the handler threw, and goes nowhere once the socket has  *)
(* closed                                                                  *)
HubReplies(c) ==
  /\ WsRespondStep(c)
  /\ LET waiting == {r \in pendingRequests :
                       /\ r.socket = c.sock
                       /\ r.handled
                       /\ r.reply = NoReply
                       /\ RequestOf(r) = c.request}
     IN  IF c.threw \/ waiting = {} \/ wsState[c.sock] # "open"
           THEN UNCHANGED pendingRequests
           ELSE \E r \in waiting :
                  pendingRequests' =
                    (pendingRequests \ {r})
                      \cup {[r EXCEPT !.reply = c.response]}
  /\ UNCHANGED disconnectPc
  /\ UNCHANGED labVars
  /\ UNCHANGED <<autoReconnect, connected, errorListener, crashed, ws,
                 reconnectTimer, heartbeatTimer, emitted, owed>>
  /\ UNCHANGED msgVars

(* _handleHubMessage for the reply to r, and what the caller that awaits *)
(* it does next                                                          *)
ReplyArrives(r) ==
  /\ ~crashed
  /\ r.reply # NoReply
  /\ ws[r.socket].state = "open"
  /\ pendingRequests' = pendingRequests \ {r}
  /\ IF r.action = "register"
       THEN IF r.reply.status = "ok"
              THEN /\ agentId' = [agentId EXCEPT !["A"] = r.reply.id]
                   /\ connected' = TRUE
                   /\ heartbeatTimer' = now + heartbeatInterval
                   /\ emitted' = "connected"
                   /\ ws' = [ws EXCEPT
                               ![r.attempt].promise =
                                 IF @ = "pending" THEN "resolved" ELSE @,
                               ![r.attempt].id = r.reply.id]
                   /\ owed' = NoTimer
                   /\ UNCHANGED reconnectTimer
              ELSE /\ ws' = [ws EXCEPT
                               ![r.attempt].promise =
                                 IF @ = "pending" THEN "rejected" ELSE @]
                   /\ reconnectTimer' = RejectedTimer(r.attempt, reconnectTimer)
                   /\ owed' = RejectedOwed(r.attempt, connected)
                   /\ UNCHANGED <<agentId, connected, heartbeatTimer, emitted>>
       ELSE UNCHANGED <<agentId, connected, heartbeatTimer, emitted, ws,
                        reconnectTimer, owed>>
  /\ UNCHANGED disconnectPc
  /\ UNCHANGED labVars
  /\ UNCHANGED broadcasts
  /\ UNCHANGED <<autoReconnect, errorListener, crashed>>
  /\ UNCHANGED <<procUp, agentCache, sessions, requests, dispatched,
                 responded>>
  /\ UNCHANGED hubVars

----------------------------------------------------------------------------
(* SpecRereg: agent A, with a listener of 'error', and the hub; either end *)
(* of a socket may see it close                                            *)

ReregTicks == 7

ReregInit == InitWith({TRUE}, {TRUE})

ReregNext ==
  \/ connect
  \/ \E k \in DOMAIN ws \cap Socks : ws[k].state = "connecting" /\ WsConnect(k)
  \/ \E k \in DOMAIN ws \cap Socks : wsState[k] # "new" /\ SocketOpen(k, k)
  \/ \E k \in DOMAIN ws : SocketClose(k)
  \/ \E k \in DOMAIN ws \cap Socks : WsClose(k)
  \/ HeartbeatFires(Len(ws) + Cardinality(pendingRequests) + 1)
  \/ \E r \in pendingRequests : HubReceives(r, Len(agents) + 1)
  \/ \E c \in inflight : HubReplies(c)
  \/ \E r \in pendingRequests : ReplyArrives(r)
  \/ \E r \in pendingRequests : HubRequestTimedOut(r)
  \/ Len(ws) + 1 \in Socks /\ ReconnectFires
  \/ /\ heartbeatTimer = NoTimer \/ heartbeatTimer > now
     /\ Elapse(ReregTicks)

SpecRereg == ReregInit /\ [][ReregNext]_vars

(* lookup of id gives no record, or one that is offline *)
NotUsable(id) ==
  \A o \in handleLookup(Request("lookup", id, NoAddress, {}, "", 0, 0)) :
    o.response.status = "ok" => o.response.agents[1].status = "offline"

(* C11: after a successful reconnect agent.id is the id of the response to *)
(* the register request of that connection, it differs from every id the  *)
(* agent held before, and a lookup of a previous id gives no usable        *)
(* record; the last is asked only of an id whose control socket the hub    *)
(* has seen close.                                                         *)
C11_ReconnectGivesNewIdOldOffline ==
  \A k \in DOMAIN ws :
    /\ ws[k].awaited = "timer"
    /\ ws[k].promise = "resolved"
    /\ agentId["A"] = ws[k].id
    => \A j \in DOMAIN ws \ {k} :
         ws[j].id # NoId =>
           /\ ws[j].id # ws[k].id
           /\ \A s \in Socks :
                ws[j].id \in regOver[s] /\ wsState[s] = "closed"
                  => NotUsable(ws[j].id)
----------------------------------------------------------------------------
(* SpecCorr: agent A, registered over socket 1, sends requests of the      *)
(* control channel through _hubRequest; the hub handles them and answers   *)
(* in any order, and time passes                                           *)

(* _hubRequest(data): the entry is put in this.pendingRequests under the *)
(* id randomBytes(8) gives and the request goes out on this.ws           *)
hubRequest(correlationId, action, id, limit) ==
  /\ ~crashed
  /\ connected
  /\ \A r \in pendingRequests : r.correlationId # correlationId
  /\ pendingRequests' =
       pendingRequests \cup
         {[HubRequest(correlationId, action, id, 0, Len(ws),
                      ws[Len(ws)].state = "open") EXCEPT !.limit = limit]}
  /\ UNCHANGED disconnectPc
  /\ UNCHANGED labVars
  /\ UNCHANGED <<autoReconnect, connected, errorListener, crashed, ws,
                 reconnectTimer, heartbeatTimer, emitted, owed>>
  /\ UNCHANGED <<hubVars, msgVars>>

CorrActions == {"discover", "ping"}

CorrLimits == {0, -1}

CorrIds == {2, 3}

CorrTicks == 3

CorrInit == InitWith({FALSE}, {TRUE})

CorrNext ==
  \/ connect
  \/ ws # <<>> /\ ws[1].state = "connecting" /\ WsConnect(1)
  \/ ws # <<>> /\ wsState[1] # "new" /\ SocketOpen(1, 1)
  \/ \E correlationId \in CorrIds, action \in CorrActions,
        limit \in CorrLimits :
       hubRequest(correlationId, action, 1, limit)
  \/ \E r \in pendingRequests : HubReceives(r, Len(agents) + 1)
  \/ \E c \in inflight : HubReplies(c)
  \/ \E r \in pendingRequests : ReplyArrives(r)
  \/ \E r \in pendingRequests : HubRequestTimedOut(r)
  \/ Elapse(CorrTicks)

SpecCorr == CorrInit /\ [][CorrNext]_vars

(* The entry of this.pendingRequests whose request the hub is answering *)
(* with c                                                               *)
AskedBy(c) ==
  {r \in pendingRequests :
     /\ r.socket = c.sock
     /\ r.handled
     /\ r.reply = NoReply
     /\ RequestOf(r) = c.request}

(* C22: when the hub sends the response to a request that carries a        *)
(* correlationId, on a socket that is open, the response carries that      *)
(* correlationId, so that the agent's entry under the id receives it,      *)
(* whatever the action of the request and whether or not its handler       *)
(* failed.                                                                 *)
C22_ResponseCarriesCorrelationId ==
  [][\A c \in inflight :
       /\ inflight' = inflight \ {c}
       /\ wsState[c.sock] = "open"
       => \A r \in AskedBy(c) :
            \E q \in pendingRequests' :
              /\ q.correlationId = r.correlationId
              /\ q.reply = c.response]_vars

----------------------------------------------------------------------------
(* SpecResolve: agent A sends to ids that are cached or not, registered or *)
(* not, while the other agents come, go idle and leave, and the cache ages *)

(* updateStatus(status) *)
updateStatus(p, status) ==
  /\ procUp[p]
  /\ \E o \in handleStatus(Request("status", agentId[p], NoAddress, {},
                                   status, 0, 0)) :
       agents' = o.table
  /\ UNCHANGED labVars
  /\ UNCHANGED <<wsState, wsAgentId, clients, inflight, now, lastSweep,
                 cleanupPc, hubOp, issued, regOver>>
  /\ UNCHANGED <<msgVars, connVars>>

(* Time passes by the life of a cache entry *)
CacheAges(maxAges) ==
  /\ now < maxAges * CacheTTL
  /\ now' = now + CacheTTL
  /\ UNCHANGED labVars
  /\ UNCHANGED <<agents, wsState, wsAgentId, clients, inflight, lastSweep,
                 cleanupPc, hubOp, issued, regOver>>
  /\ UNCHANGED <<msgVars, connVars>>

MaxAges == 1

ResolveNext ==
  \/ \E p \in Procs : (p # "A" => procUp["A"]) /\ AgentUp(p, Len(agents) + 1)
  \/ AgentDown("B")
  \/ \E status \in {"idle", "online"} : updateStatus("C", status)
  \/ discover("A")
  \/ CacheAges(MaxAges)
  \/ \E to \in PeerIds : send("A", to, "task", Obj("job"))
  \/ \E s \in DOMAIN sessions : PeerConnect(s)

SpecResolve == HubInit /\ [][ResolveNext]_vars

(* The status of the record of id in the registry, "" when there is none *)
StatusOf(id) ==
  IF \E i \in DOMAIN agents : agents[i].id = id
    THEN agents[CHOOSE i \in DOMAIN agents : agents[i].id = id].status
    ELSE ""

(* The step is a send of A to the id to that asked the hub *)
SendLooksUp(to) ==
  /\ Len(sessions') = Len(sessions) + 1
  /\ sessions'[Len(sessions')].to = to
  /\ sessions'[Len(sessions')].asked # <<>>

(* C23: a send to an id with no fresh cache entry fails with 'Agent not   *)
(* found' when the hub has no record of the id and with 'Agent is         *)
(* offline' when the record's status is offline, and in both cases leaves *)
(* the address cache as it was and opens no connection; when the record   *)
(* is idle it resolves to the record's address.                           *)
C23_ResolveByLookup ==
  [][\A to \in PeerIds :
       SendLooksUp(to) =>
         LET s == sessions'[Len(sessions')]
         IN  /\ StatusOf(to) = "" =>
                  /\ s.state = "rejected"
                  /\ s.error = "Agent not found"
                  /\ agentCache' = agentCache
             /\ StatusOf(to) = "offline" =>
                  /\ s.state = "rejected"
                  /\ s.error = "Agent is offline"
                  /\ agentCache' = agentCache
             /\ StatusOf(to) = "idle" =>
                  /\ s.state = "connecting"
                  /\ \E i \in DOMAIN agents :
                       agents[i].id = to /\ s.address = agents[i].address]_vars

(* A send failed on an offline record after its cache entry went stale, *)
(* and another resolved an idle record                                  *)
C23_Witness ==
  \E s, t \in DOMAIN sessions :
    /\ sessions[s].asked # <<>>
    /\ sessions[s].error = "Agent is offline"
    /\ agentCache["A"][sessions[s].to] # NoEntry
    /\ sessions[t].asked # <<>>
    /\ sessions[t].state = "connecting"
    /\ StatusOf(sessions[t].to) = "idle"

----------------------------------------------------------------------------
(* SpecClock: heartbeat and status requests for one id arrive on two       *)
(* sockets.  Each pool.query runs on a connection of its own: NOW() is the *)
(* time its statement started, and the row is written when the statement   *)
(* gets to it, after or before the statement of the other connection.      *)

(* ws.on('message') for a heartbeat or status request, up to the start of *)
(* its UPDATE: NOW() is fixed                                             *)
StatementStarts(s, req) ==
  /\ wsState[s] = "open"
  /\ req.action \in {"heartbeat", "status"}
  /\ \A c \in inflight : c.sock # s
  /\ inflight' = inflight \cup
       {[sock |-> s, request |-> req,
         response |-> Response("ok", "", NoId, <<>>), threw |-> FALSE,
         started |-> now, written |-> FALSE]}
  /\ hubOp' = req.action
  /\ UNCHANGED labVars
  /\ UNCHANGED <<msgVars, connVars>>
  /\ UNCHANGED <<agents, wsState, wsAgentId, clients, now, lastSweep,
                 cleanupPc, issued, regOver>>

(* The UPDATE of handleHeartbeat or handleStatus writes the row *)
StatementWrites(c) ==
  /\ c \in inflight
  /\ ~c.written
  /\ agents' =
       [i \in DOMAIN agents |->
          IF agents[i].id = c.request.id
            THEN [agents[i] EXCEPT
                    !.last_seen = c.started,
                    !.status = IF c.request.action = "heartbeat" THEN "online"
                               ELSE IF c.request.status # ""
                                 THEN c.request.status ELSE @]
            ELSE agents[i]]
  /\ inflight' = (inflight \ {c}) \cup {[c EXCEPT !.written = TRUE]}
  /\ UNCHANGED labVars
  /\ UNCHANGED <<msgVars, connVars>>
  /\ UNCHANGED <<wsState, wsAgentId, clients, now, lastSweep, cleanupPc,
                 hubOp, issued, regOver>>

(* The response of a statement that has written is sent *)
StatementResponds(c) ==
  /\ c \in inflight
  /\ c.written
  /\ inflight' = inflight \ {c}
  /\ UNCHANGED labVars
  /\ UNCHANGED <<msgVars, connVars>>
  /\ UNCHANGED <<agents, wsState, wsAgentId, clients, now, lastSweep,
                 cleanupPc, hubOp, issued, regOver>>

(* The clock of the database goes on *)
ClockTick(maxClock) ==
  /\ now < maxClock
  /\ now' = now + 1
  /\ UNCHANGED labVars
  /\ UNCHANGED <<msgVars, connVars>>
  /\ UNCHANGED <<agents, wsState, wsAgentId, clients, inflight, lastSweep,
                 cleanupPc, hubOp, issued, regOver>>

MaxClock == 4

ClockRequests ==
  {Request("heartbeat", 1, NoAddress, {}, "", 0, 0),
   Request("status", 1, NoAddress, {}, "idle", 0, 0),
   Request("status", 1, NoAddress, {}, "", 0, 0)}

ClockInit == HubInit

ClockNext ==
  \/ \E s \in Socks : WsConnect(s)
  \/ /\ agents = <<>>
     /\ inflight = {}
     /\ WsMessage(1, Request("register", NoId, Addr("A"), {}, "", 0, 0), 1)
  \/ \E c \in inflight : c.request.action = "register" /\ WsRespond(c)
  \/ \E s \in Socks, req \in ClockRequests :
       agents # <<>> /\ StatementStarts(s, req)
  \/ \E c \in inflight : c.request.action # "register" /\ StatementWrites(c)
  \/ \E c \in inflight : c.request.action # "register" /\ StatementResponds(c)
  \/ ClockTick(MaxClock)

SpecClock == ClockInit /\ [][ClockNext]_vars

(* C24: the last_seen of a record never decreases, whatever the order in *)
(* which the heartbeat and status requests for its id, arriving on       *)
(* different sockets, are handled.                                       *)
C24_LastSeenNeverDecreases ==
  [][\A i \in DOMAIN agents :
       agents'[i].last_seen >= agents[i].last_seen]_vars

----------------------------------------------------------------------------
(* SpecSettle: A sends to B.  The process at B's address answers as an     *)
(* agent does, or closes the connection it accepted before it has written  *)
(* anything; the sender's socket may stay idle for its timeout.            *)

(* The peer closes the connection it accepted, having read and written   *)
(* nothing.  The sender's socket takes 'end' and 'close', for which      *)
(* _sendEncrypted has no handler, and the timer of the socket is cleared *)
PeerCloses(s) ==
  /\ sessions[s].state = "open"
  /\ ~sessions[s].closed
  /\ sessions[s].in = <<>>
  /\ sessions[s].sessionKey = NoKey
  /\ sessions[s].peerKey = NoKey
  /\ sessions' = [sessions EXCEPT ![s].closed = TRUE]
  /\ UNCHANGED labVars
  /\ UNCHANGED <<procUp, agentId, agentCache, requests, dispatched,
                 responded, broadcasts>>
  /\ UNCHANGED <<hubVars, connVars>>

(* socket.setTimeout(10000) of _sendEncrypted, in seconds *)
SendTimeoutSeconds == 10

(* socket.on('timeout') of _sendEncrypted: the socket is open and had no *)
(* activity for 10 s                                                     *)
SendTimeout(s) ==
  /\ sessions[s].kind # "raw"
  /\ sessions[s].state \in {"connecting", "open"}
  /\ ~sessions[s].closed
  /\ sessions[s].in = <<>>
  /\ sessions' = [sessions EXCEPT ![s].state = "rejected",
                                  ![s].error = "Connection timeout",
                                  ![s].closed = TRUE]
  /\ requests' = RejectRequestOf(s, "Connection timeout")
  /\ broadcasts' = SettleBroadcast(s, FALSE, "Connection timeout")
  /\ UNCHANGED labVars
  /\ UNCHANGED <<procUp, agentId, agentCache, dispatched, responded>>
  /\ UNCHANGED <<hubVars, connVars>>

SettleNext ==
  \/ \E p \in {"A", "B"} : (p # "A" => procUp["A"]) /\ AgentUp(p, Len(agents) + 1)
  \/ \E payload \in SendPayloads :
       agentId["B"] # NoId /\ send("A", agentId["B"], "task", payload)
  \/ \E s \in DOMAIN sessions : PeerConnect(s)
  \/ \E s \in DOMAIN sessions : ~sessions[s].closed /\ PeerReceive(s)
  \/ \E s \in DOMAIN sessions : SenderReceive(s)
  \/ \E s \in DOMAIN sessions : PeerCloses(s)
  \/ \E s \in DOMAIN sessions : SendTimeout(s)

SpecSettle == HubInit /\ [][SettleNext]_vars

(* The event loops of both processes run every callback that is due, and *)
(* the timer of an idle socket fires                                     *)
SpecSettleFair ==
  /\ SpecSettle
  /\ \A s \in SessionIds :
       /\ WF_vars(s \in DOMAIN sessions /\ PeerConnect(s))
       /\ WF_vars(s \in DOMAIN sessions /\ ~sessions[s].closed /\ PeerReceive(s))
       /\ WF_vars(s \in DOMAIN sessions /\ SenderReceive(s))
       /\ WF_vars(s \in DOMAIN sessions /\ SendTimeout(s))

(* C25: every send that opened a connection settles in the end: it *)
(* resolves or it rejects.                                         *)
C25_SendSettles ==
  \A s \in SessionIds :
    (s \in DOMAIN sessions /\ sessions[s].kind = "send")
      ~> (s \in DOMAIN sessions
            /\ sessions[s].state \in {"resolved", "rejected"})

----------------------------------------------------------------------------
(* SpecInitiator: A sends to the address of B, where the lines that come *)
(* back are those of an agent or any others the process there writes     *)

(* The process at the address writes a line of its own accord *)
Unsolicited(s, type) ==
  /\ sessions[s].kind = "send"
  /\ sessions[s].state = "open"
  /\ ~sessions[s].closed
  /\ sessions[s].in = <<>>
  /\ Len(sessions[s].out) <= 1
  /\ sessions' =
       [sessions EXCEPT
          ![s].in = Append(@, Frame(type,
                                    IF type = "handshake_ack"
                                      THEN generateKeyPair(s, "responder")
                                      ELSE NoKey,
                                    NoId, "", NoData, NoCorr, ""))]
  /\ UNCHANGED labVars
  /\ UNCHANGED <<procUp, agentId, agentCache, requests, dispatched,
                 responded, broadcasts>>
  /\ UNCHANGED <<hubVars, connVars>>

InitiatorNext ==
  \/ \E p \in {"A", "B"} : (p # "A" => procUp["A"]) /\ AgentUp(p, Len(agents) + 1)
  \/ \E payload \in SendPayloads :
       agentId["B"] # NoId /\ send("A", agentId["B"], "task", payload)
  \/ \E s \in DOMAIN sessions : PeerConnect(s)
  \/ \E s \in DOMAIN sessions : ~sessions[s].closed /\ PeerReceive(s)
  \/ \E s \in DOMAIN sessions : SenderReceive(s)
  \/ \E s \in DOMAIN sessions, type \in {"handshake_ack", "ack"} :
       Unsolicited(s, type)

SpecInitiator == HubInit /\ [][InitiatorNext]_vars

(* The step appends a message frame to what the initiator of s has sent *)
SendsMessage(s) ==
  /\ Len(sessions'[s].out) = Len(sessions[s].out) + 1
  /\ sessions'[s].out[Len(sessions'[s].out)].type = "message"

(* C26: on each outbound connection the initiator sends the message      *)
(* frame only when it takes a handshake_ack, sealed under the key        *)
(* derived from that ack, sends no second message frame, and reports     *)
(* success only on an ack that comes after it sent the message.          *)
C26_InitiatorSequence ==
  [][\A s \in DOMAIN sessions :
       sessions[s].kind = "send" =>
         /\ SendsMessage(s) =>
              /\ sessions[s].sessionKey = NoKey
              /\ sessions[s].in # <<>>
              /\ Head(sessions[s].in).type = "handshake_ack"
              /\ sessions'[s].out[Len(sessions'[s].out)].data =
                   encrypt(sessions[s].payload,
                           deriveKey(generateKeyPair(s, "initiator"),
                                     Head(sessions[s].in).key))
         /\ sessions[s].state = "open" /\ sessions'[s].state = "resolved" =>
              sessions[s].sessionKey # NoKey]_vars

----------------------------------------------------------------------------
(* SpecOrder: clients open keyed sessions to B and write numbered message *)
(* frames, of which some do not decrypt                                   *)

(* The i-th message frame of a client on connection s: its correlationId *)
(* is i                                                                  *)
NumberedLine(s, i, kind) == [RawLine(s, kind) EXCEPT !.correlationId = i]

(* The scripts of message frames *)
NumberedScripts ==
  UNION {[1..n -> {"message", "garbled"}] : n \in 1..MaxLines}

(* A client connects to the server of process q, writes its handshake and *)
(* then its message frames                                                *)
NumberedConnect(q, script) ==
  /\ procUp[q]
  /\ Len(sessions) + 1 \in SessionIds
  /\ LET s == Len(sessions) + 1
         opened == Session("", "raw", agentId[q],
                           [ok |-> TRUE, address |-> Addr(q), error |-> "",
                            asked |-> <<>>],
                           "", Null, NoCorr)
     IN  sessions' =
           Append(sessions,
                  [opened EXCEPT
                     !.state = "open",
                     !.peer = q,
                     !.out = <<RawLine(s, "handshake")>>
                               \o [i \in DOMAIN script |->
                                     NumberedLine(s, i, script[i])]])
  /\ UNCHANGED labVars
  /\ UNCHANGED <<procUp, agentId, agentCache, requests, dispatched,
                 responded, broadcasts>>
  /\ UNCHANGED <<hubVars, connVars>>

OrderNext ==
  \/ AgentUp("A", Len(agents) + 1)
  \/ procUp["A"] /\ AgentUp("B", Len(agents) + 1)
  \/ \E script \in NumberedScripts : NumberedConnect("B", script)
  \/ \E s \in DOMAIN sessions : PeerReceive(s)

SpecOrder == HubInit /\ [][OrderNext]_vars

Filter(seq, Keep(_)) ==
  LET F[i \in 0..Len(seq)] ==
        IF i = 0 THEN <<>>
        ELSE IF Keep(seq[i]) THEN Append(F[i - 1], seq[i]) ELSE F[i - 1]
  IN  F[Len(seq)]

(* The correlation ids of the 'message' events of connection s, in the *)
(* order of dispatch                                                   *)
EventIds(s) ==
  LET OfS(e) == e.session = s
      events == Filter(dispatched, OfS)
  IN  [k \in DOMAIN events |-> events[k].correlationId]

(* The correlation ids of the acks written on connection s, in order *)
AckIds(s) ==
  LET IsAck(f) == f.type = "ack"
      acks == Filter(sessions[s].in, IsAck)
  IN  [k \in DOMAIN acks |-> acks[k].correlationId]

(* The line at the head of connection s is a message frame that decrypts *)
(* under the key of the session                                          *)
Decrypts(s) ==
  /\ sessions[s].out # <<>>
  /\ Head(sessions[s].out).type = "message"
  /\ sessions[s].peerKey # NoKey
  /\ decrypt(Head(sessions[s].out).data, sessions[s].peerKey) # Null

----------------------------------------------------------------------------
(* SpecRequest: A requests of B, B answers or does not, the connection of *)
(* the request may time out, and time passes                              *)

(* The callback of the timer of request k, when it is due *)
RequestTimerFires(k) ==
  /\ requests[k].deadline <= now
  /\ RequestTimedOut(k)

(* Time passes while no timer of a request is due *)
RequestTick(maxTicks) ==
  /\ now < maxTicks * SendTimeoutSeconds
  /\ \A k \in DOMAIN requests :
       requests[k].state = "pending" => requests[k].deadline > now
  /\ now' = now + SendTimeoutSeconds
  /\ UNCHANGED labVars
  /\ UNCHANGED <<agents, wsState, wsAgentId, clients, inflight, lastSweep,
                 cleanupPc, hubOp, issued, regOver>>
  /\ UNCHANGED <<msgVars, connVars>>

RequestTicks == 4

RequestNext ==
  \/ \E p \in {"A", "B"} : (p # "A" => procUp["A"]) /\ AgentUp(p, Len(agents) + 1)
  \/ \E to \in {1, 2} : request("A", to, "task", Obj("job"))
  \/ \E e \in DOMAIN dispatched, payload \in RespondPayloads :
       respond("B", e, payload)
  \/ \E s \in DOMAIN sessions : PeerConnect(s)
  \/ \E s \in DOMAIN sessions : PeerReceive(s)
  \/ \E s \in DOMAIN sessions : SenderReceive(s)
  \/ \E s \in DOMAIN sessions : SendTimeout(s)
  \/ \E k \in DOMAIN requests : RequestTimerFires(k)
  \/ RequestTick(RequestTicks)

SpecRequest == HubInit /\ [][RequestNext]_vars

(* The step dispatches at the requester of k a message with the id and *)
(* the response type of the request                                    *)
ResponseArrives(k) ==
  /\ Len(dispatched') = Len(dispatched) + 1
  /\ LET msg == dispatched'[Len(dispatched')]
     IN  /\ msg.at = requests[k].by
         /\ msg.correlationId = requests[k].correlationId
         /\ msg.type = ResponseType(requests[k].type)

(* C28: a request settles once and no later than its timeout.  Its       *)
(* handler and its timer are set before anything is sent; while it is    *)
(* pending, the first message with its correlationId and response type   *)
(* resolves it with the payload of that message, a failure to resolve    *)
(* the address or to send rejects it with the error of the failure, and  *)
(* its timer rejects it with 'Request timeout' when due; a request that  *)
(* has settled stays as it is, its handler removed and its timer off.    *)
C28_RequestSettlesOnce ==
  [][/\ \A k \in DOMAIN requests :
          LET r == requests[k]
              rr == requests'[k]
          IN  /\ r.state # "pending" => rr = r
              /\ rr.state = "pending" =>
                   rr.listener /\ rr.timer /\ now' <= rr.deadline
              /\ rr.state # "pending" => ~rr.listener /\ ~rr.timer
              /\ r.state = "pending" /\ ResponseArrives(k) =>
                   /\ rr.state = "resolved"
                   /\ rr.value = dispatched'[Len(dispatched')].payload
              /\ r.state = "pending" /\ rr.state = "resolved" =>
                   ResponseArrives(k)
              /\ r.state = "pending" /\ rr.state = "rejected" =>
                   \/ rr.error = "Request timeout" /\ r.deadline <= now
                   \/ /\ sessions'[r.session].state = "rejected"
                      /\ rr.error = sessions'[r.session].error
     /\ \A k \in DOMAIN requests' \ DOMAIN requests :
          LET rr == requests'[k]
          IN  /\ sessions'[rr.session].out = <<>>
              /\ rr.deadline = now + RequestTimeout
              /\ rr.state = "pending" => rr.listener /\ rr.timer
              /\ rr.state # "pending" =>
                   /\ ~rr.listener /\ ~rr.timer
                   /\ sessions'[rr.session].state = "rejected"
                   /\ rr.error = sessions'[rr.session].error]_vars

(* A request was resolved by the response to it, after time had passed *)
C28_Witness ==
  \E k \in DOMAIN requests, c \in DOMAIN responded :
    /\ requests[k].state = "resolved"
    /\ requests[k].value = responded[c].payload
    /\ responded[c].correlationId = requests[k].correlationId
    /\ ~requests[k].listener
    /\ now > 0

----------------------------------------------------------------------------
(* The requests of the control channel of SpecRereg, one by one *)

(* The entry under the correlation id of r is no longer in the table *)
Removed(r) ==
  \A q \in pendingRequests' : q.correlationId # r.correlationId

(* C29: a request of the control channel is settled once, by the response *)
(* that carries its correlationId or by its timer when that is due, and   *)
(* its entry leaves this.pendingRequests at that moment: the table holds  *)
(* no entry of a promise that has settled.  A response that comes when    *)
(* the entry is gone changes nothing.                                     *)
C29_HubRequestSettlesOnce ==
  [][/\ \A r \in pendingRequests' : ~r.threw
     /\ \A r \in pendingRequests :
          Removed(r) => r.reply # NoReply \/ r.deadline <= now
     /\ \A c \in inflight :
          inflight' = inflight \ {c} /\ AskedBy(c) = {} =>
            pendingRequests' = pendingRequests]_vars

----------------------------------------------------------------------------
(* SpecWaiters: calls of _hubRequest whose correlation ids are drawn from  *)
(* a small set, so that randomBytes(8) gives an id that is in use.  Each   *)
(* element of pendingRequests is a call whose promise is pending, with its *)
(* timer; inTable tells whether this.pendingRequests maps the id to it.    *)

MaxWaiters == 2

WaiterIds == {1, 2}

WaiterTicks == 3

(* this.pendingRequests.delete(correlationId) *)
TableDelete(calls, correlationId) ==
  {IF r.correlationId = correlationId THEN [r EXCEPT !.inTable = FALSE] ELSE r :
     r \in calls}

(* _hubRequest(data) when randomBytes(8) gives correlationId: *)
(* this.pendingRequests.set puts the call in place of whatever *)
(* the table held under the id                                 *)
hubRequestUnder(correlationId) ==
  /\ Cardinality(pendingRequests) < MaxWaiters
  /\ LET call == CHOOSE n \in 1..MaxWaiters :
                   \A r \in pendingRequests : r.call # n
     IN  pendingRequests' =
           TableDelete(pendingRequests, correlationId)
             \cup {[call |-> call, correlationId |-> correlationId,
                    deadline |-> now + HubRequestTimeout, inTable |-> TRUE]}
  /\ UNCHANGED disconnectPc
  /\ UNCHANGED labVars
  /\ UNCHANGED <<autoReconnect, connected, errorListener, crashed, ws,
                 reconnectTimer, heartbeatTimer, emitted, owed>>
  /\ UNCHANGED <<hubVars, msgVars>>

(* _handleHubMessage for a response that carries correlationId: the call *)
(* the table holds under the id, if any, is resolved and its timer       *)
(* cleared                                                               *)
handleHubMessage(correlationId) ==
  /\ \E r \in pendingRequests : r.correlationId = correlationId
  /\ pendingRequests' =
       {r \in pendingRequests :
          ~(r.correlationId = correlationId /\ r.inTable)}
  /\ UNCHANGED disconnectPc
  /\ UNCHANGED labVars
  /\ UNCHANGED <<autoReconnect, connected, errorListener, crashed, ws,
                 reconnectTimer, heartbeatTimer, emitted, owed>>
  /\ UNCHANGED <<hubVars, msgVars>>

(* The timer of the call r: the entry under its id is deleted and the *)
(* call rejected                                                      *)
WaiterTimedOut(r) ==
  /\ r.deadline <= now
  /\ pendingRequests' = TableDelete(pendingRequests \ {r}, r.correlationId)
  /\ UNCHANGED disconnectPc
  /\ UNCHANGED labVars
  /\ UNCHANGED <<autoReconnect, connected, errorListener, crashed, ws,
                 reconnectTimer, heartbeatTimer, emitted, owed>>
  /\ UNCHANGED <<hubVars, msgVars>>

WaitersNext ==
  \/ \E correlationId \in WaiterIds : hubRequestUnder(correlationId)
  \/ \E correlationId \in WaiterIds : handleHubMessage(correlationId)
  \/ \E r \in pendingRequests : WaiterTimedOut(r)
  \/ Elapse(WaiterTicks)

SpecWaiters == ConnInit /\ [][WaitersNext]_vars

(* C30: no two pending waiters are registered under one correlation id,  *)
(* and every pending waiter has its entry in the table: a registration   *)
(* under an id in use does not replace the waiter that holds it, and the *)
(* timer of one request does not remove the entry of another.            *)
C30_OneWaiterPerId ==
  \A r \in pendingRequests :
    /\ r.inTable
    /\ \A q \in pendingRequests \ {r} : q.correlationId # r.correlationId

----------------------------------------------------------------------------
(* The heartbeats of SpecRereg *)

(* The heartbeat requests the step makes and sends on an open socket *)
HeartbeatsSent ==
  {r \in pendingRequests' :
     /\ r.action = "heartbeat"
     /\ r.sent
     /\ \A q \in pendingRequests : q.correlationId # r.correlationId}

(* C31: a heartbeat is sent only while the agent is connected, when the *)
(* one heartbeat timer is due, which is then set heartbeatInterval      *)
(* ahead, and it carries the id of the agent's current registration.    *)
C31_HeartbeatOnlyWhileConnected ==
  [][\A r \in HeartbeatsSent :
       /\ connected
       /\ heartbeatTimer # NoTimer /\ heartbeatTimer <= now
       /\ heartbeatTimer' = now + heartbeatInterval
       /\ r.id = agentId["A"]]_vars

----------------------------------------------------------------------------
(* SpecDisc: agent A connects, its control socket may close and be made   *)
(* again, and the application calls disconnect() once, at any moment      *)

(* disconnect(), up to its await: with this.ws open the disconnect request *)
(* is sent and awaited; otherwise the call runs to its end                 *)
disconnectCall(correlationId) ==
  /\ ~crashed
  /\ disconnectPc = "none"
  /\ ws # <<>>
  /\ \A r \in pendingRequests : r.correlationId # correlationId
  /\ autoReconnect' = FALSE
  /\ heartbeatTimer' = NoTimer
  /\ IF ws[Len(ws)].state = "open"
       THEN /\ pendingRequests' =
                 pendingRequests \cup
                   {HubRequest(correlationId, "disconnect", agentId["A"], 0,
                               Len(ws), TRUE)}
            /\ disconnectPc' = "awaiting"
            /\ UNCHANGED <<procUp, connected, emitted>>
       ELSE /\ procUp' = [procUp EXCEPT !["A"] = FALSE]
            /\ connected' = FALSE
            /\ emitted' = "disconnected"
            /\ disconnectPc' = "returned"
            /\ UNCHANGED pendingRequests
  /\ UNCHANGED labVars
  /\ UNCHANGED <<errorListener, crashed, ws, reconnectTimer, owed>>
  /\ UNCHANGED <<agentId, agentCache, sessions, requests, dispatched,
                 responded, broadcasts>>
  /\ UNCHANGED hubVars

(* disconnect() after its await, the response having resolved the request: *)
(* this.ws.close(), this.server.close(), connected = false                 *)
DisconnectAnswered(r) ==
  /\ ~crashed
  /\ disconnectPc = "awaiting"
  /\ r.action = "disconnect"
  /\ r.reply # NoReply
  /\ ws[r.socket].state = "open"
  /\ pendingRequests' = pendingRequests \ {r}
  /\ ws' = [ws EXCEPT ![Len(ws)].state = "closed"]
  /\ procUp' = [procUp EXCEPT !["A"] = FALSE]
  /\ connected' = FALSE
  /\ emitted' = "disconnected"
  /\ disconnectPc' = "returned"
  /\ UNCHANGED labVars
  /\ UNCHANGED <<autoReconnect, errorListener, crashed, reconnectTimer,
                 heartbeatTimer, owed>>
  /\ UNCHANGED <<agentId, agentCache, sessions, requests, dispatched,
                 responded, broadcasts>>
  /\ UNCHANGED hubVars

(* The timer of the disconnect request rejects it: the await throws and *)
(* disconnect() ends there                                              *)
DisconnectTimedOut(r) ==
  /\ ~crashed
  /\ disconnectPc = "awaiting"
  /\ r.action = "disconnect"
  /\ r.deadline <= now
  /\ pendingRequests' = pendingRequests \ {r}
  /\ disconnectPc' = "threw"
  /\ UNCHANGED labVars
  /\ UNCHANGED <<autoReconnect, connected, errorListener, crashed, ws,
                 reconnectTimer, heartbeatTimer, emitted, owed>>
  /\ UNCHANGED <<hubVars, msgVars>>

DiscTicks == 3

DiscNext ==
  \/ connect
  \/ \E k \in DOMAIN ws \cap Socks : ws[k].state = "connecting" /\ WsConnect(k)
  \/ \E k \in DOMAIN ws \cap Socks : wsState[k] # "new" /\ SocketOpen(k, k)
  \/ \E k \in DOMAIN ws : SocketClose(k)
  \/ \E k \in DOMAIN ws \cap Socks : WsClose(k)
  \/ \E r \in pendingRequests : HubReceives(r, Len(agents) + 1)
  \/ \E c \in inflight : HubReplies(c)
  \/ \E r \in pendingRequests : r.action # "disconnect" /\ ReplyArrives(r)
  \/ \E r \in pendingRequests : r.action # "disconnect" /\ HubRequestTimedOut(r)
  \/ Len(ws) + 1 \in Socks /\ ReconnectFires
  \/ disconnectCall(Len(ws) + Cardinality(pendingRequests) + 1)
  \/ \E r \in pendingRequests : DisconnectAnswered(r)
  \/ \E r \in pendingRequests : DisconnectTimedOut(r)
  \/ Elapse(DiscTicks)

SpecDisc == ReregInit /\ [][DiscNext]_vars

(* C32: once disconnect() has been called the agent opens no control *)
(* socket and sends no register request.                             *)
C32_NoAttemptAfterDisconnect ==
  [][disconnectPc # "none" =>
       /\ Len(ws') = Len(ws)
       /\ \A r \in pendingRequests' \ pendingRequests :
            r.action # "register"]_vars

(* C40: when disconnect() ends, by returning or by throwing, connected is *)
(* false, the heartbeat timer is cleared, the control socket is closed    *)
(* and the P2P listener is closed.                                        *)
C40_DisconnectEndsClean ==
  [][disconnectPc \notin {"returned", "threw"}
       /\ disconnectPc' \in {"returned", "threw"}
     => /\ ~connected'
        /\ heartbeatTimer' = NoTimer
        /\ ws'[Len(ws')].state = "closed"
        /\ ~procUp'["A"]]_vars

----------------------------------------------------------------------------
(* The control messages an agent sends once registered *)
ControlActions == {"heartbeat", "status", "discover", "find", "lookup", "stats"}

(* The requests whose statement ran in this step on a socket whose agent *)
(* is registered (the closure variable agentId of its handler is set)    *)
HandledOfRegistered ==
  {c \in inflight' \ inflight :
     /\ wsAgentId[c.sock] # NoId
     /\ c.request.action \in ControlActions
     /\ c.request.action \in {"heartbeat", "status"}
          => c.request.id = wsAgentId[c.sock]
     /\ ~c.threw}

(* C33: every control message a registered agent sends (heartbeat, status, *)
(* discover, find, lookup, stats) sets last_seen of that agent's row to    *)
(* the time the hub handles it.                                            *)
C33_ControlMessageRefreshesLastSeen ==
  [][\A c \in HandledOfRegistered :
       \A i \in DOMAIN agents' :
         agents'[i].id = wsAgentId[c.sock] => agents'[i].last_seen = now]_vars

----------------------------------------------------------------------------
(* The endpoint the hub observes a control connection to come from:       *)
(* req.socket.remoteAddress and req.socket.remotePort                     *)
RemoteEndpoint == [host |-> RemoteIP, port |-> 51000]

(* The registrations whose INSERT ran in this step *)
Registered == {c \in inflight' \ inflight :
                 c.request.action = "register" /\ ~c.threw}

(* The address the registration should store: the observed IP with the *)
(* port of the supplied address, the observed endpoint without one     *)
ExpectedAddress(address) ==
  IF address # NoAddress /\ address.port # 0
    THEN [host |-> RemoteEndpoint.host, port |-> address.port]
    ELSE RemoteEndpoint

(* C34: a registration stores and returns the observed remote IP joined   *)
(* with the port of the supplied address, whatever host was supplied, and *)
(* the full observed endpoint, host and port, when no address or no port  *)
(* was supplied.                                                          *)
C34_StoredAddress ==
  [][\A c \in Registered :
       /\ c.response.agents[1].address = ExpectedAddress(c.request.address)
       /\ \A i \in DOMAIN agents' :
            agents'[i].id = c.response.id
              => agents'[i].address = ExpectedAddress(c.request.address)]_vars

----------------------------------------------------------------------------
(* The step is a send of A to the id to *)
SendsTo(to) ==
  /\ Len(sessions') = Len(sessions) + 1
  /\ sessions'[Len(sessions')].from = "A"
  /\ sessions'[Len(sessions')].to = to

(* The cache entry of agent A for id is less than 60 s old *)
FreshEntry(id) ==
  /\ agentCache["A"][id] # NoEntry
  /\ now - agentCache["A"][id].lastSeen < 60

(* C35: resolving an id returns the cached address, and asks the hub      *)
(* nothing, exactly when the cache entry is less than 60 s old; otherwise *)
(* it sends exactly one lookup of the id and, when that succeeds, stores  *)
(* the returned address with the current time.                            *)
C35_CacheOrOneLookup ==
  [][\A to \in PeerIds :
       SendsTo(to) =>
         LET s == sessions'[Len(sessions')]
         IN  /\ FreshEntry(to) <=> s.asked = <<>>
             /\ FreshEntry(to) =>
                  /\ s.state = "connecting"
                  /\ s.address = agentCache["A"][to].address
                  /\ agentCache' = agentCache
             /\ ~FreshEntry(to) =>
                  /\ s.asked = <<LookupRequest(to)>>
                  /\ s.state = "connecting" =>
                       agentCache'["A"][to] =
                         [address |-> s.address, lastSeen |-> now]]_vars

(* A send took the address of an id from the cache, and 60 s later a send *)
(* to the same id looked it up and stored the address anew                *)
C35_Witness ==
  \E s, t \in DOMAIN sessions :
    /\ s < t
    /\ sessions[s].to = sessions[t].to
    /\ sessions[s].asked = <<>>
    /\ sessions[t].asked # <<>>
    /\ sessions[t].state # "rejected"
    /\ now = CacheTTL
    /\ agentCache["A"][sessions[t].to].lastSeen = now

----------------------------------------------------------------------------
(* SpecMalformed: lines that are not what their receiver expects.  A       *)
(* client writes to the server of agent A lines that do not parse and      *)
(* handshakes without a key among good lines; whoever answers a send of A  *)
(* writes such lines back; a control socket of the hub receives data that  *)
(* does not parse and requests whose statement the database refuses.       *)

(* The key of a handshake that carries none (msg.key is undefined) *)
NoPublicKey == [session |-> 0, end |-> ""]

(* A line JSON.parse throws on *)
Unparseable == Frame("unparseable", NoKey, NoId, "", NoData, NoCorr, "")

(* The line is not a frame of the protocol: it does not parse, or it is a *)
(* handshake or handshake_ack without a key, or it has no type and no     *)
(* error                                                                  *)
Malformed(msg) ==
  \/ msg.type = "unparseable"
  \/ msg.type \in {"handshake", "handshake_ack"} /\ msg.key = NoPublicKey
  \/ msg.type = "" /\ msg.error = ""

(* The try block of socket.on('data') throws on the line: JSON.parse on a *)
(* line that does not parse, Crypto.deriveKey on a key that is undefined  *)
Throws(msg) ==
  \/ msg.type = "unparseable"
  \/ msg.type \in {"handshake", "handshake_ack"} /\ msg.key = NoPublicKey

BadLine(s, kind) ==
  CASE kind = "unparseable" -> Unparseable
    [] kind = "nokey" -> Frame("handshake", NoPublicKey, 3, "", NoData, NoCorr, "")
    [] OTHER -> RawLine(s, kind)

BadScripts ==
  {<<"unparseable", "handshake", "message">>,
   <<"handshake", "unparseable", "message">>,
   <<"handshake", "nokey", "message">>,
   <<"nokey", "message">>}

(* A client connects to the server of process q and writes its lines *)
BadConnect(q, script) ==
  /\ procUp[q]
  /\ Len(sessions) + 1 \in SessionIds
  /\ LET s == Len(sessions) + 1
         opened == Session("", "raw", agentId[q],
                           [ok |-> TRUE, address |-> Addr(q), error |-> "",
                            asked |-> <<>>],
                           "", Null, NoCorr)
     IN  sessions' =
           Append(sessions,
                  [opened EXCEPT
                     !.state = "open",
                     !.peer = q,
                     !.out = [i \in DOMAIN script |-> BadLine(s, script[i])]])
  /\ UNCHANGED labVars
  /\ UNCHANGED <<procUp, agentId, agentCache, requests, dispatched,
                 responded, broadcasts>>
  /\ UNCHANGED <<hubVars, connVars>>

(* The catch of socket.on('data') of _handlePeerConnection: the error is *)
(* written and the loop goes on to the next line                         *)
PeerCatch(s) ==
  /\ sessions[s].out # <<>>
  /\ Throws(Head(sessions[s].out))
  /\ sessions' = [sessions EXCEPT
                    ![s].out = Tail(@),
                    ![s].in = Append(@, ErrorFrame("invalid_message"))]
  /\ UNCHANGED labVars
  /\ UNCHANGED <<procUp, agentId, agentCache, requests, dispatched,
                 responded, broadcasts>>
  /\ UNCHANGED <<hubVars, connVars>>

(* Whoever accepted the connection of a send writes a line of its own *)
MalformedReply(s, kind) ==
  /\ sessions[s].kind = "send"
  /\ sessions[s].state = "open"
  /\ ~sessions[s].closed
  /\ sessions[s].in = <<>>
  /\ Len(sessions[s].out) <= 1
  /\ sessions' =
       [sessions EXCEPT
          ![s].in = Append(@, IF kind = "unparseable"
                                THEN Unparseable
                                ELSE Frame(kind, NoPublicKey, NoId, "",
                                           NoData, NoCorr, ""))]
  /\ UNCHANGED labVars
  /\ UNCHANGED <<procUp, agentId, agentCache, requests, dispatched,
                 responded, broadcasts>>
  /\ UNCHANGED <<hubVars, connVars>>

(* The catch of socket.on('data') of _sendEncrypted: socket.end() and *)
(* reject(err)                                                        *)
SenderCatch(s) ==
  /\ sessions[s].in # <<>>
  /\ Throws(Head(sessions[s].in))
  /\ LET settled == sessions[s].state \in {"resolved", "rejected"}
     IN  /\ sessions' =
              [sessions EXCEPT
                 ![s].in = Tail(@),
                 ![s].state = IF settled THEN @ ELSE "rejected",
                 ![s].error = IF settled THEN @ ELSE "invalid"]
         /\ requests' = IF settled THEN requests
                                   ELSE RejectRequestOf(s, "invalid")
         /\ broadcasts' = IF settled THEN broadcasts
                                     ELSE SettleBroadcast(s, FALSE, "invalid")
  /\ UNCHANGED labVars
  /\ UNCHANGED <<procUp, agentId, agentCache, dispatched, responded>>
  /\ UNCHANGED <<hubVars, connVars>>

(* Data JSON.parse throws on, as the request of its completion *)
UnparseableRequest == Request("unparseable", NoId, NoAddress, {}, "", 0, 0)

(* ws.on('message') for data that does not parse: the catch answers, no *)
(* statement runs; the answer is on its way until WsRespond sends it    *)
WsGarbled(s) ==
  /\ wsState[s] = "open"
  /\ LET c == [sock |-> s, request |-> UnparseableRequest,
               response |-> NoResponse, threw |-> TRUE]
     IN  /\ c \notin inflight
         /\ inflight' = inflight \cup {c}
  /\ UNCHANGED labVars
  /\ UNCHANGED <<msgVars, connVars>>
  /\ UNCHANGED <<agents, wsState, wsAgentId, clients, now, lastSweep,
                 cleanupPc, hubOp, issued, regOver>>

(* What ws.on('message') sends for a completion: the handler's response, *)
(* or the answer of its catch                                            *)
HubSends(c) ==
  IF c.threw THEN Response("error", "invalid_json", NoId, <<>>)
             ELSE c.response

MalformedRequests ==
  {Request("discover", NoId, NoAddress, {}, "", limit, 0) : limit \in {0, -1}}

MalformedNext ==
  \/ \E p \in {"A", "B"} : (p # "A" => procUp["A"]) /\ AgentUp(p, Len(agents) + 1)
  \/ agentId["B"] # NoId /\ send("A", agentId["B"], "task", Obj("job"))
  \/ \E script \in BadScripts : BadConnect("A", script)
  \/ \E s \in DOMAIN sessions : PeerConnect(s)
  \/ \E s \in DOMAIN sessions :
       /\ ~sessions[s].closed
       /\ sessions[s].out # <<>> /\ ~Throws(Head(sessions[s].out))
       /\ PeerReceive(s)
  \/ \E s \in DOMAIN sessions : ~sessions[s].closed /\ PeerCatch(s)
  \/ \E s \in DOMAIN sessions, kind \in {"unparseable", "handshake_ack", ""} :
       MalformedReply(s, kind)
  \/ \E s \in DOMAIN sessions :
       /\ sessions[s].in # <<>> /\ ~Throws(Head(sessions[s].in))
       /\ SenderReceive(s)
  \/ \E s \in DOMAIN sessions : SenderCatch(s)
  \/ WsConnect(1)
  \/ \E req \in MalformedRequests :
       inflight = {} /\ WsMessage(1, req, Len(agents) + 1)
  \/ inflight = {} /\ WsGarbled(1)
  \/ \E c \in inflight : WsRespond(c)

SpecMalformed == HubInit /\ [][MalformedNext]_vars

(* The responder of connection s took a line in this step *)
ResponderTakes(s) ==
  /\ s \in DOMAIN sessions
  /\ sessions[s].out # <<>>
  /\ sessions'[s].out = Tail(sessions[s].out)

(* The initiator of connection s took a line in this step *)
InitiatorTakes(s) ==
  /\ s \in DOMAIN sessions
  /\ sessions[s].in # <<>>
  /\ sessions'[s].in = Tail(sessions[s].in)

(* The responder answered the line it took with { error: e } *)
Answers(s, e) ==
  sessions'[s].in = Append(sessions[s].in, ErrorFrame(e))

(* C36: the peer responder replies { error: 'invalid_message' }, and the  *)
(* hub { status: 'error', error: 'invalid_json' }, exactly when the line  *)
(* received fails to parse as JSON; such a line changes no session or     *)
(* registry state, and the lines after it are processed.                  *)
C36_ParseErrorReplies ==
  [][/\ \A s \in SessionIds :
          ResponderTakes(s) =>
            /\ Answers(s, "invalid_message")
                 <=> Head(sessions[s].out).type = "unparseable"
            /\ Head(sessions[s].out).type = "unparseable" =>
                 /\ sessions'[s].peerKey = sessions[s].peerKey
                 /\ sessions'[s].peerId = sessions[s].peerId
                 /\ sessions'[s].closed = sessions[s].closed
                 /\ dispatched' = dispatched
     /\ \A c \in inflight' \ inflight :
          /\ HubSends(c).error = "invalid_json"
               <=> c.request.action = "unparseable"
          /\ c.request.action = "unparseable" =>
               /\ agents' = agents
               /\ wsState' = wsState
               /\ wsAgentId' = wsAgentId
               /\ clients' = clients]_vars

(* C37: a peer session is destroyed on a framing error: the endpoint that *)
(* receives a malformed frame or a frame lacking a required field, the    *)
(* responder as much as the initiator, closes the connection.             *)
C37_FramingErrorCloses ==
  [][\A s \in SessionIds :
       /\ ResponderTakes(s) /\ Malformed(Head(sessions[s].out))
            => sessions'[s].closed
       /\ InitiatorTakes(s) /\ Malformed(Head(sessions[s].in))
            => sessions'[s].state \in {"resolved", "rejected"}]_vars

----------------------------------------------------------------------------
(* The keys in use on connection s: the session key of each end and the *)
(* keys the message frames written on it were encrypted under           *)
KeysOn(s) ==
  {sessions[s].sessionKey, sessions[s].peerKey}
    \cup {sessions[s].out[i].data.key :
            i \in {j \in DOMAIN sessions[s].out :
                     sessions[s].out[j].type = "message"}}

(* C38: every peer connection derives its session key from key pairs     *)
(* generated for that connection alone, on both sides: no key pair and   *)
(* no session key is used on two connections, and none of a connection   *)
(* that has closed is used by a later one.                               *)
C38_EphemeralKeys ==
  \A s \in DOMAIN sessions :
    /\ \A key \in KeysOn(s) : \A pair \in key : pair.session = s
    /\ \A t \in DOMAIN sessions \ {s} :
         \A key \in KeysOn(s) \ {NoKey} : key \notin KeysOn(t)

(* Two connections of one agent to one peer, the first one delivered and *)
(* closed, each with a session key derived at both ends                  *)
C38_Witness ==
  \E s, t \in DOMAIN sessions :
    /\ s < t
    /\ sessions[s].from = sessions[t].from
    /\ sessions[s].to = sessions[t].to
    /\ sessions[s].state = "resolved"
    /\ sessions[s].sessionKey # NoKey /\ sessions[s].peerKey # NoKey
    /\ sessions[t].sessionKey # NoKey /\ sessions[t].peerKey # NoKey

----------------------------------------------------------------------------
(* The control sockets that are open or connecting *)
Live == {k \in DOMAIN ws : ws[k].state \in {"open", "connecting"}}

(* this.ws is open and the registration made on it succeeded *)
CurrentRegistered ==
  /\ ws # <<>>
  /\ ws[Len(ws)].state = "open"
  /\ ws[Len(ws)].id # NoId

(* A socket made before this.ws closes in this step *)
OlderCloses ==
  \E k \in DOMAIN ws :
    /\ k < Len(ws)
    /\ ws[k].state # "closed"
    /\ ws'[k].state = "closed"

(* C39: the agent has at most one control socket open or connecting;      *)
(* connected is true exactly when the most recently created socket is     *)
(* open and its registration succeeded; the close or error of an older    *)
(* socket never changes connected and never schedules a reconnection     *)
(* (as long as the process has not ended on an uncaught exception).       *)
C39_OneControlSocket ==
  /\ [](~crashed => Cardinality(Live) <= 1)
  /\ [](~crashed => (connected <=> CurrentRegistered))
  /\ [][OlderCloses /\ ~crashed' =>
          /\ connected' = connected
          /\ reconnectTimer' = reconnectTimer]_vars

====
